---- MODULE Spec2Model ----
(***************************************************************************)
(* Bronze / Silver / Gold pipeline of valeur-verte-logements.              *)
(*                                                                         *)
(* Conventions of the model                                                *)
(*   - a DataFrame is a record [columns, rows]: columns is the set of      *)
(*     column names, rows a bag (Bags) of rows; a row is a function from   *)
(*     column names to cells, and a null cell (None / NaN) is a column of  *)
(*     the frame that is absent from the row's DOMAIN;                     *)
(*   - a percentage is held in tenths of a percent (66.7 is 667);          *)
(*   - a price per square metre is an exact fraction [n, d] with d > 0;    *)
(*   - a bucket is a function from object keys to the rows of the object;  *)
(*     a Parquet dataset is the set of its files, each with the values of  *)
(*     its partition directory, the guid of its name and its rows.         *)
(***************************************************************************)
EXTENDS Integers, Sequences, FiniteSets, Bags, TLC

VARIABLES
    pc,        \* position of the script under study
    dpeIn,     \* Silver DPE frame handed to agg_dpe
    dpeAgg,    \* frame returned by agg_dpe (NotRun before the call)
    dvfIn,     \* Silver DVF frame handed to agg_dvf
    dvfAgg,    \* frame returned by agg_dvf (NotRun before the call)
    goldDf,    \* the Gold frame of build_gold (NotRun before the call)
    dvfFile,   \* rows of the Bronze DVF file read by load_dvf_year_to_df
    dvfLoaded, \* outcome of load_dvf_year_to_df (NotRun before the call)
    bronze,    \* bucket datalake-bronze: object key -> rows of the object
    silver,    \* bucket datalake-silver: dataset ("dvf", "dpe") -> files
    goldBucket, \* bucket datalake-gold, prefix market_indicators
    now,       \* the clock read by the ingestion scripts, in seconds
    guids,     \* number of file-name guids drawn by write_to_dataset
    runs,      \* number of transformation scripts run
    lastOp,    \* the script that ran last, with the guids of what it wrote
    ing,       \* the ingestion script in progress: its position and its log
    analytics, \* run_business_analytics in progress: its position, its results
    writers    \* the concurrent runs of transform_gold.py: position and table

aggVars == <<dpeIn, dpeAgg, dvfIn, dvfAgg, goldDf>>
loadVars == <<dvfFile, dvfLoaded>>
storeVars == <<bronze, silver, goldBucket, now, guids, runs, lastOp>>
ingVars == <<ing>>
runVars == <<analytics, writers>>
vars == <<pc, aggVars, loadVars, storeVars, ingVars, runVars>>

-----------------------------------------------------------------------------
(* Bounds *)

MaxDpeRows == 6
MaxDvfRows == 4
MaxJoinDpeRows == 2
MaxFileRows == 2
MaxSteps == 4

\* Number of keys one list_objects_v2 call returns (the store's page size,
\* 1000 keys, scaled down).
ListMaxKeys == 2

-----------------------------------------------------------------------------
(* Program constants *)

CLASSES == {"A", "B", "C", "D", "E", "F", "G"}

DEPARTEMENTS == {"92", "59", "34"}

NotRun == [status |-> "not run"]
ValueError == [status |-> "ValueError"]

-----------------------------------------------------------------------------
(* DataFrame helpers (pandas) *)

notna(r, c) == c \in DOMAIN r

\* df[mask]: the rows of bag b that lie in the set S, with their multiplicity
BagRestrict(b, S) == [r \in S \cap DOMAIN b |-> b[r]]

\* DataFrame.dropna(subset=...): keeps the rows with no null in the subset.
dropna(rows, subset) ==
    BagRestrict(rows, {r \in DOMAIN rows : \A c \in subset : notna(r, c)})

RECURSIVE SumOver(_, _)
SumOver(S, f) ==
    IF S = {} THEN 0
    ELSE LET x == CHOOSE y \in S : TRUE IN f[x] + SumOver(S \ {x}, f)

\* Series.astype(str) of a partition column that Arrow read back as int.
astype_str(v) == ToString(v)

\* numpy round to an integer, n/d with d > 0: nearest, ties to even.
RoundHalfEven(n, d) ==
    LET q == n \div d
        r == n % d
    IN  IF 2 * r > d THEN q + 1
        ELSE IF 2 * r < d THEN q
        ELSE IF q % 2 = 0 THEN q ELSE q + 1

-----------------------------------------------------------------------------
(* load_dvf_year_to_df: cleaning of one Bronze DVF file *)

RECURSIVE Gcd(_, _)
Gcd(a, b) == IF b = 0 THEN a ELSE Gcd(b, a % b)

Abs(x) == IF x < 0 THEN -x ELSE x

Frac(n, d) == [n |-> n, d |-> d]

FracLess(a, b) == a.n * b.d < b.n * a.d

\* float division a / b; a division by zero gives inf or nan, not an error
FracDiv(a, b) ==
    IF b.n = 0 THEN [n |-> a.n, d |-> 0]
    ELSE LET n == IF b.n < 0 THEN -(a.n * b.d) ELSE a.n * b.d
             d == Abs(a.d * b.n)
             g == Gcd(Abs(n), d)
         IN  Frac(n \div g, d \div g)

\* The numbers that the texts of the model's DVF files denote once the
\* decimal comma is replaced: str.replace(",", ".").astype(float).  A text
\* outside this table is not a number and makes astype(float) raise.
NumText ==
    [t \in {"3000,00", "4500", "0", "2", "-1", "1,5"} |->
        CASE t = "3000,00" -> Frac(3000, 1)
          [] t = "4500" -> Frac(4500, 1)
          [] t = "0" -> Frac(0, 1)
          [] t = "2" -> Frac(2, 1)
          [] t = "-1" -> Frac(-1, 1)
          [] t = "1,5" -> Frac(3, 2)]

\* The dates that the texts of the model's DVF files denote under the
\* format "%d/%m/%Y"; any other text is coerced to NaT.
DateText ==
    [t \in {"15/01/2020", "30/04/2021", "31/12/2019"} |->
        CASE t = "15/01/2020" -> [year |-> 2020, month |-> 1, day |-> 15]
          [] t = "31/12/2019" -> [year |-> 2019, month |-> 12, day |-> 31]
          [] t = "30/04/2021" -> [year |-> 2021, month |-> 4, day |-> 30]]

\* dt.to_period("Q").astype(str)
to_period_Q(date) ==
    ToString(date.year) \o "Q" \o ToString((date.month - 1) \div 3 + 1)

\* Apply f to every row of bag b.
BagMap(b, f) ==
    LET out == {f[r] : r \in DOMAIN b}
    IN  [m \in out |-> SumOver({r \in DOMAIN b : f[r] = m}, b)]

DVF_COLS == {"Date mutation", "Valeur fonciere", "Code departement",
             "Surface reelle bati"}

\* Lines 185-186: the two texts become floats.
DvfAsFloat(r) ==
    [r EXCEPT !["Valeur fonciere"] = NumText[@],
              !["Surface reelle bati"] = NumText[@]]

\* Line 190: prix_m2 = valeur / surface.
DvfWithPrix(r) ==
    r @@ [prix_m2 |-> FracDiv(r["Valeur fonciere"], r["Surface reelle bati"])]

\* Line 192: date_mutation, NaT (null) when the text does not parse.
DvfWithDate(r) ==
    IF "Date mutation" \in DOMAIN r /\ r["Date mutation"] \in DOMAIN DateText
    THEN r @@ [date_mutation |-> DateText[r["Date mutation"]]]
    ELSE r

\* Lines 194-195: annee and trimestre.
DvfWithQuarter(r) ==
    r @@ [annee |-> r.date_mutation.year, trimestre |-> to_period_Q(r.date_mutation)]

\* Lines 193-198 on the frame that has its prix_m2.
DvfDateAndScope(rows) ==
    LET dated == dropna(BagMap(rows, [r \in DOMAIN rows |-> DvfWithDate(r)]),
                        {"date_mutation"})
        quartered == BagMap(dated, [r \in DOMAIN dated |-> DvfWithQuarter(r)])
    IN  BagRestrict(quartered,
            {r \in DOMAIN quartered :
                "Code departement" \in DOMAIN r
                /\ r["Code departement"] \in DEPARTEMENTS})

DvfLoadedCols == DVF_COLS \cup {"prix_m2", "date_mutation", "annee", "trimestre"}

\* The cleaning with the division done before (and instead of) the
\* "surface > 0" filter.
clean_dvf_unfiltered(rows) ==
    LET df1 == dropna(rows, {"Valeur fonciere", "Surface reelle bati"})
    IN  IF \E r \in DOMAIN df1 : r["Valeur fonciere"] \notin DOMAIN NumText
                                 \/ r["Surface reelle bati"] \notin DOMAIN NumText
        THEN ValueError
        ELSE
        LET df2 == BagMap(df1, [r \in DOMAIN df1 |-> DvfAsFloat(r)])
            df4 == BagMap(df2, [r \in DOMAIN df2 |-> DvfWithPrix(r)])
        IN  [status |-> "ok",
             divided |-> df2,
             df |-> [columns |-> DvfLoadedCols, rows |-> DvfDateAndScope(df4)]]

\* Lines 183-201 of load_dvf_year_to_df on the rows read from the file:
\* the frame returned, with the rows on which the division was evaluated.
clean_dvf(rows) ==
    LET df1 == dropna(rows, {"Valeur fonciere", "Surface reelle bati"})
    IN  IF \E r \in DOMAIN df1 : r["Valeur fonciere"] \notin DOMAIN NumText
                                 \/ r["Surface reelle bati"] \notin DOMAIN NumText
        THEN ValueError
        ELSE
        LET df2 == BagMap(df1, [r \in DOMAIN df1 |-> DvfAsFloat(r)])
            df3 == BagRestrict(df2, {r \in DOMAIN df2 :
                                       r["Surface reelle bati"].n > 0})
            df4 == BagMap(df3, [r \in DOMAIN df3 |-> DvfWithPrix(r)])
        IN  [status |-> "ok",
             divided |-> df3,
             df |-> [columns |-> DvfLoadedCols, rows |-> DvfDateAndScope(df4)]]

-----------------------------------------------------------------------------
(* agg_dpe *)

ClasseCol(c) == "classe_" \o c
PctCol(c) == "classe_" \o c \o "_pct"

DpeNeeded == {"tv016_departement_code", "trimestre", "classe_consommation_energie"}

\* the percentage cut to one decimal instead of rounded
PctTrunc1(count, total) == (count * 1000) \div total

\* (pivot[col] / pivot["dpe_total"] * 100).round(1), in tenths of a percent
PctRound1(count, total) == RoundHalfEven(count * 1000, total)

\* np.where(pivot["dpe_total"] > 0, (...).round(1), 0.0)
ClassePct(count, total) == IF total > 0 THEN PctRound1(count, total) ELSE 0

\* groupby([dept, trimestre, classe]).size(): one count per observed triple
DpeCounts(df) ==
    LET triples == {<<astype_str(r.tv016_departement_code), r.trimestre,
                      r.classe_consommation_energie>> : r \in DOMAIN df}
        rowsOf(t) == {r \in DOMAIN df :
                        <<astype_str(r.tv016_departement_code), r.trimestre,
                          r.classe_consommation_energie>> = t}
    IN  [t \in triples |-> SumOver(rowsOf(t), df)]

\* pivot_table(index=[dept, trimestre], columns=classe, fill_value=0) followed
\* by the total, the percentages and the rename of the department column.
DpePivotRow(counts, k, observed) ==
    LET cnt(c) == IF <<k[1], k[2], c>> \in DOMAIN counts
                  THEN counts[<<k[1], k[2], c>>] ELSE 0
        cls_cols == {c \in CLASSES : c \in observed}
        total == SumOver(cls_cols, [c \in cls_cols |-> cnt(c)])
        cntCols == [col \in {ClasseCol(c) : c \in observed} |->
                      cnt(CHOOSE c \in observed : ClasseCol(c) = col)]
        pctCols == [col \in {PctCol(c) : c \in cls_cols} |->
                      ClassePct(cnt(CHOOSE c \in cls_cols : PctCol(c) = col), total)]
    IN  [departement |-> k[1], trimestre |-> k[2], dpe_total |-> total]
            @@ cntCols @@ pctCols

\* The class counts left unpivoted: one row per (key, class).
DpeUnpivoted(df) ==
    LET counts == DpeCounts(df)
    IN  [columns |-> {"departement", "trimestre", "classe", "count"},
         rows |-> SetToBag({[departement |-> t[1], trimestre |-> t[2],
                             classe |-> t[3], count |-> counts[t]]
                            : t \in DOMAIN counts})]

\* The pivot of the class counts of df with its total and percentage columns.
DpePivot(df) ==
    LET counts == DpeCounts(df)
        keys == {<<t[1], t[2]>> : t \in DOMAIN counts}
        observed == {t[3] : t \in DOMAIN counts}
    IN  [columns |-> {"departement", "trimestre", "dpe_total"}
                        \cup {ClasseCol(c) : c \in observed}
                        \cup {PctCol(c) : c \in CLASSES \cap observed},
         rows |-> SetToBag({DpePivotRow(counts, k, observed) : k \in keys})]

\* agg_dpe without the "keep only A..G" filter
agg_dpe_unfiltered(dpe) ==
    IF DpeNeeded \ dpe.columns # {} THEN ValueError
    ELSE DpePivot(dropna(dpe.rows, DpeNeeded))

agg_dpe(dpe) ==
    IF DpeNeeded \ dpe.columns # {} THEN ValueError
    ELSE
    LET df == dropna(dpe.rows, DpeNeeded)
    IN  DpePivot(BagRestrict(df,
            {r \in DOMAIN df : r.classe_consommation_energie \in CLASSES}))

-----------------------------------------------------------------------------
(* agg_dvf *)

FracAdd(a, b) == [n |-> a.n * b.d + b.n * a.d, d |-> a.d * b.d]

\* Sum of the prix_m2 of the rows of bag g, each taken with its multiplicity.
RECURSIVE PrixSum(_, _)
PrixSum(g, S) ==
    IF S = {} THEN Frac(0, 1)
    ELSE LET r == CHOOSE x \in S : TRUE
         IN  FracAdd(Frac(r.prix_m2.n * g[r], r.prix_m2.d), PrixSum(g, S \ {r}))

\* The prix_m2 of the rows of bag g in ascending order.
RECURSIVE PrixSorted(_)
PrixSorted(g) ==
    IF DOMAIN g = {} THEN <<>>
    ELSE LET r == CHOOSE x \in DOMAIN g :
                     \A y \in DOMAIN g : ~FracLess(y.prix_m2, x.prix_m2)
         IN  <<r.prix_m2>> \o PrixSorted(g (-) SetToBag({r}))

\* ("prix_m2", "mean")
PrixMean(g) ==
    LET s == PrixSum(g, DOMAIN g)
    IN  Frac(s.n, s.d * BagCardinality(g))

\* ("prix_m2", "median"): the middle value, or the mean of the two middle ones
PrixMedian(g) ==
    LET s == PrixSorted(g)
        n == Len(s)
        sum == FracAdd(s[(n + 1) \div 2], s[n \div 2 + 1])
    IN  Frac(sum.n, sum.d * 2)

DvfCols == {"departement", "trimestre", "prix_m2"}

\* The code-departement column agg_dvf reads: 'code_departement' first.
DvfDeptCol(columns) ==
    IF "code_departement" \in columns THEN "code_departement"
    ELSE "Code departement"

\* dvf["departement"] = dvf[...].astype(str)
WithDepartement(rows, col) ==
    LET add(r) == IF col \in DOMAIN r
                  THEN r @@ [departement |-> astype_str(r[col])] ELSE r
        out == {add(r) : r \in DOMAIN rows}
    IN  [m \in out |->
            SumOver({r \in DOMAIN rows : add(r) = m}, rows)]

\* groupby(["departement", "trimestre"]).agg(size, median, mean), rounded
DvfGroups(df) ==
    LET keys == {<<r.departement, r.trimestre>> : r \in DOMAIN df}
        grp(k) == BagRestrict(df, {r \in DOMAIN df :
                                     <<r.departement, r.trimestre>> = k})
        median(k) == PrixMedian(grp(k))
        mean(k) == PrixMean(grp(k))
    IN  [columns |-> {"departement", "trimestre", "nb_ventes",
                      "prix_m2_median", "prix_m2_mean"},
         rows |-> SetToBag({[departement |-> k[1], trimestre |-> k[2],
                             nb_ventes |-> BagCardinality(grp(k)),
                             prix_m2_median |-> RoundHalfEven(median(k).n, median(k).d),
                             prix_m2_mean |-> RoundHalfEven(mean(k).n, mean(k).d)]
                            : k \in keys})]

\* agg_dvf without the dropna on departement, trimestre and prix_m2: the
\* group size then counts the rows whose prix_m2 is null (groupby itself
\* leaves out null keys, median and mean skip null values).
agg_dvf_no_dropna(dvf) ==
    IF {"code_departement", "Code departement"} \cap dvf.columns = {}
    THEN ValueError
    ELSE IF {"trimestre", "prix_m2"} \ dvf.columns # {} THEN ValueError
    ELSE
    LET df == dropna(WithDepartement(dvf.rows, DvfDeptCol(dvf.columns)),
                     {"departement", "trimestre"})
        full == DvfGroups(dropna(df, DvfCols))
        size(k) == BagCardinality(BagRestrict(df,
                      {r \in DOMAIN df : <<r.departement, r.trimestre>> = k}))
    IN  [columns |-> full.columns,
         rows |-> SetToBag({[r EXCEPT !.nb_ventes = size(<<r.departement, r.trimestre>>)]
                            : r \in DOMAIN full.rows})]

agg_dvf(dvf) ==
    IF {"code_departement", "Code departement"} \cap dvf.columns = {}
    THEN ValueError
    ELSE IF {"trimestre", "prix_m2"} \ dvf.columns # {} THEN ValueError
    ELSE DvfGroups(dropna(WithDepartement(dvf.rows, DvfDeptCol(dvf.columns)),
                          DvfCols))

-----------------------------------------------------------------------------
(* build_gold: the join and the column order *)

JoinKey(r) == <<r.departement, r.trimestre>>

\* Rows of a merge: matched pairs, and the left rows kept without a match
\* when keepUnmatched (how="left").
MergeRows(left, right, keepUnmatched) ==
    LET pairs == {p \in (DOMAIN left.rows) \X (DOMAIN right.rows) :
                    JoinKey(p[1]) = JoinKey(p[2])}
        alone == IF keepUnmatched
                 THEN {l \in DOMAIN left.rows :
                         \A r \in DOMAIN right.rows : JoinKey(l) # JoinKey(r)}
                 ELSE {}
        out == {p[1] @@ p[2] : p \in pairs} \cup alone
        mult(m) ==
            SumOver({p \in pairs : p[1] @@ p[2] = m},
                    [p \in pairs |-> left.rows[p[1]] * right.rows[p[2]]])
            + SumOver({l \in alone : l = m}, left.rows)
    IN  [columns |-> left.columns \cup right.columns,
         rows |-> [m \in out |-> mult(m)]]

\* dvf_agg.merge(dpe_agg, on=["departement", "trimestre"], how="inner")
merge_inner(left, right) == MergeRows(left, right, FALSE)

\* dvf_agg.merge(dpe_agg, on=["departement", "trimestre"], how="left")
merge_left(left, right) == MergeRows(left, right, TRUE)

YearStrings == {"2019", "2020", "2021"}

\* gold["trimestre"].str.slice(0, 4), for a quarter string such as "2020Q1"
str_slice_0_4(t) ==
    CHOOSE y \in YearStrings : \E q \in 1..4 : t = y \o "Q" \o ToString(q)

\* Steps 3 to 5 of build_gold: the join, 'annee', the column order.
GoldFrame(dvf_agg, dpe_agg) ==
    LET gold == merge_left(dvf_agg, dpe_agg)
        withAnnee(r) == r @@ [annee |-> str_slice_0_4(r.trimestre)]
        out == {withAnnee(r) : r \in DOMAIN gold.rows}
    IN  [columns |-> gold.columns \cup {"annee", "dpe_total"},
         rows |-> [m \in out |->
                     SumOver({r \in DOMAIN gold.rows : withAnnee(r) = m}, gold.rows)]]

-----------------------------------------------------------------------------
(* Specification SpecAggDpe: agg_dpe applied to a bounded Silver DPE frame *)

DpeRow(d, t, c) ==
    [tv016_departement_code |-> d, trimestre |-> t, classe_consommation_energie |-> c]

\* The rows a Silver DPE frame is drawn from: every class value (A..G, the
\* non-class value "N", null) for one key, a second key, and a row with a
\* null quarter.  The department is a partition column of the dataset and
\* is read as an integer.
DpeRowUniverse ==
    {DpeRow(92, "2020Q1", c) : c \in CLASSES \cup {"N"}}
    \cup {[tv016_departement_code |-> 92, trimestre |-> "2020Q1"]}
    \cup {DpeRow(59, "2020Q1", "G")}
    \cup {[tv016_departement_code |-> 92, classe_consommation_energie |-> "A"]}

EmptyDpe == [columns |-> DpeNeeded, rows |-> EmptyBag]

EmptyDvf == [columns |-> {"code_departement", "trimestre", "prix_m2"},
             rows |-> EmptyBag]

InitAggDpe ==
    /\ pc = "input"
    /\ dpeIn = EmptyDpe
    /\ dpeAgg = NotRun
    /\ dvfIn = EmptyDvf
    /\ dvfAgg = NotRun
    /\ goldDf = NotRun
    /\ dvfFile = EmptyBag
    /\ dvfLoaded = NotRun
    /\ bronze = <<>>
    /\ silver = [dvf |-> {}, dpe |-> {}]
    /\ goldBucket = [complete |-> NotRun, parts |-> {}]
    /\ now = 0
    /\ guids = 0
    /\ runs = 0
    /\ lastOp = [op |-> "none"]
    /\ ing = [script |-> "none", pc |-> "idle", run |-> 0]
    /\ analytics = [pc |-> "idle"]
    /\ writers = <<>>

AddDpeRow ==
    /\ pc = "input"
    /\ BagCardinality(dpeIn.rows) < MaxDpeRows
    /\ \E r \in DpeRowUniverse :
          dpeIn' = [dpeIn EXCEPT !.rows = @ (+) SetToBag({r})]
    /\ UNCHANGED <<runVars, ingVars, pc, dpeAgg, dvfIn, dvfAgg, goldDf, loadVars, storeVars>>

CallAggDpe ==
    /\ pc = "input"
    /\ dpeAgg' = agg_dpe(dpeIn)
    /\ pc' = "done"
    /\ UNCHANGED <<runVars, ingVars, dpeIn, dvfIn, dvfAgg, goldDf, loadVars, storeVars>>

NextAggDpe == AddDpeRow \/ CallAggDpe

SpecAggDpe == InitAggDpe /\ [][NextAggDpe]_vars

-----------------------------------------------------------------------------
(* Specification SpecGold: agg_dvf, agg_dpe and the join of build_gold     *)
(* applied to bounded Silver frames                                        *)

DvfRow(d, t, p) == [code_departement |-> d, trimestre |-> t, prix_m2 |-> p]

\* The rows a Silver DVF frame is drawn from: four prices, a null price and
\* a null quarter for one key, and two other keys.
DvfRowUniverse ==
    {DvfRow(92, "2020Q1", p) :
        p \in {Frac(1000, 1), Frac(2000, 1), Frac(3000, 1), Frac(5001, 2)}}
    \cup {[code_departement |-> 92, trimestre |-> "2020Q1"]}
    \cup {[code_departement |-> 92, prix_m2 |-> Frac(1000, 1)]}
    \cup {DvfRow(59, "2020Q1", Frac(2000, 1))}
    \cup {DvfRow(92, "2021Q2", Frac(3000, 1))}

\* The Silver DPE rows of the join: two classes for a key of the DVF frame,
\* a non-class row for another, and a key that the DVF frame never has.
JoinDpeRowUniverse ==
    {DpeRow(92, "2020Q1", "A"), DpeRow(92, "2020Q1", "G"),
     DpeRow(59, "2020Q1", "N"), DpeRow(34, "2020Q1", "B")}

\* Steps 2 to 5 of build_gold on the two Silver frames.
build_gold_frame(dvf, dpe) == GoldFrame(agg_dvf(dvf), agg_dpe(dpe))

InitGold == InitAggDpe

AddDvfRow ==
    /\ pc = "input"
    /\ BagCardinality(dvfIn.rows) < MaxDvfRows
    /\ \E r \in DvfRowUniverse :
          dvfIn' = [dvfIn EXCEPT !.rows = @ (+) SetToBag({r})]
    /\ UNCHANGED <<runVars, ingVars, pc, dpeIn, dpeAgg, dvfAgg, goldDf, loadVars, storeVars>>

AddJoinDpeRow ==
    /\ pc = "input"
    /\ BagCardinality(dpeIn.rows) < MaxJoinDpeRows
    /\ \E r \in JoinDpeRowUniverse :
          dpeIn' = [dpeIn EXCEPT !.rows = @ (+) SetToBag({r})]
    /\ UNCHANGED <<runVars, ingVars, pc, dpeAgg, dvfIn, dvfAgg, goldDf, loadVars, storeVars>>

CallBuildGoldFrame ==
    /\ pc = "input"
    /\ dvfAgg' = agg_dvf(dvfIn)
    /\ dpeAgg' = agg_dpe(dpeIn)
    /\ goldDf' = build_gold_frame(dvfIn, dpeIn)
    /\ pc' = "done"
    /\ UNCHANGED <<runVars, ingVars, dpeIn, dvfIn, loadVars, storeVars>>

NextGold == AddDvfRow \/ AddJoinDpeRow \/ CallBuildGoldFrame

SpecGold == InitGold /\ [][NextGold]_vars

-----------------------------------------------------------------------------
(* Specification SpecLoadDvf: the cleaning of load_dvf_year_to_df applied  *)
(* to a bounded Bronze DVF file                                            *)

NoCell == "<no cell>"

\* A line of the file; NoCell stands for an empty field, which read_csv
\* reads as a null cell.
RawDvfRow(date, valeur, dept, surface) ==
    LET cells == [c \in DVF_COLS |->
                    CASE c = "Date mutation" -> date
                      [] c = "Valeur fonciere" -> valeur
                      [] c = "Code departement" -> dept
                      [] c = "Surface reelle bati" -> surface]
    IN  [c \in {x \in DVF_COLS : cells[x] # NoCell} |-> cells[c]]

RawDvfUniverse ==
    {RawDvfRow(date, valeur, dept, surface) :
        date \in {"15/01/2020", "2020-01-15", NoCell},
        valeur \in {"3000,00", "abc", NoCell},
        dept \in {"92", "75"},
        surface \in {"2", "1,5", "0", "-1", NoCell}}

InitLoadDvf == InitAggDpe

AddFileRow ==
    /\ pc = "input"
    /\ BagCardinality(dvfFile) < MaxFileRows
    /\ \E r \in RawDvfUniverse : dvfFile' = dvfFile (+) SetToBag({r})
    /\ UNCHANGED <<runVars, ingVars, pc, aggVars, dvfLoaded, storeVars>>

CallCleanDvf ==
    /\ pc = "input"
    /\ dvfLoaded' = clean_dvf(dvfFile)
    /\ pc' = "done"
    /\ UNCHANGED <<runVars, ingVars, aggVars, dvfFile, storeVars>>

NextLoadDvf == AddFileRow \/ CallCleanDvf

SpecLoadDvf == InitLoadDvf /\ [][NextLoadDvf]_vars

-----------------------------------------------------------------------------
(* The object stores: Bronze keys, listing, Parquet datasets *)

DvfPrefix(year) == "dvf/" \o year \o "/"
DpePrefix(dept) == "dpe/" \o dept \o "/"

\* Key dvf/{year}/dvf_{year}_{timestamp}_{source_file.name}
DvfKey(year, ts, name) == [prefix |-> DvfPrefix(year), ts |-> ts, file |-> name]

\* the key of a batch named after the timestamp alone
DpeKeyOfSecond(dept, batch_num, ts) ==
    [prefix |-> "dpe/" \o dept \o "/", batch |-> 1, ts |-> ts]

\* Key dpe/{dept}/dpe_batch_{batch_num:04d}_{timestamp}.json
DpeKey(dept, batch_num, ts) ==
    [prefix |-> DpePrefix(dept), batch |-> batch_num, ts |-> ts]

\* The source files of the DVF ingestion, their names in ascending order.
DvfSourceNames == <<"dvf-2020-a.txt", "dvf-2020-b.txt", "dvf-2021.txt">>

DvfSourceFiles == {DvfSourceNames[i] : i \in DOMAIN DvfSourceNames}

determine_year_from_filename(name) ==
    IF name \in {"dvf-2020-a.txt", "dvf-2020-b.txt"} THEN "2020" ELSE "2021"

\* The order in which the store lists two keys of one prefix: the order of
\* the key strings, that is (timestamp, file name) under dvf/ and
\* (batch number, timestamp) under dpe/.
KeyBefore(a, b) ==
    IF "file" \in DOMAIN a
    THEN LET rank(k) == CHOOSE i \in DOMAIN DvfSourceNames :
                            DvfSourceNames[i] = k.file
         IN  a.ts < b.ts \/ (a.ts = b.ts /\ rank(a) < rank(b))
    ELSE a.batch < b.batch \/ (a.batch = b.batch /\ a.ts < b.ts)

RECURSIVE KeysInOrder(_)
KeysInOrder(S) ==
    IF S = {} THEN <<>>
    ELSE LET k == CHOOSE x \in S : \A y \in S \ {x} : KeyBefore(x, y)
         IN  <<k>> \o KeysInOrder(S \ {k})

\* s3.list_objects_v2(Bucket, Prefix)["Contents"]: one page of keys, with no
\* continuation request.
list_objects_v2(bucket, prefix) ==
    LET all == KeysInOrder({k \in DOMAIN bucket : k.prefix = prefix})
    IN  SubSeq(all, 1, IF Len(all) < ListMaxKeys THEN Len(all) ELSE ListMaxKeys)

\* The text of a partition value in the path of a file (col=value).
PathValue(col, v) == IF col = "annee" THEN ToString(v) ELSE v

\* The integers that the digit-only path values of the model denote.
PathInts ==
    [s \in {"92", "59", "34", "2019", "2020", "2021"} |->
        CASE s = "92" -> 92 [] s = "59" -> 59 [] s = "34" -> 34
          [] s = "2019" -> 2019 [] s = "2020" -> 2020 [] s = "2021" -> 2021]

\* The value the hive partitioning of ds.dataset infers from a path value:
\* an integer when the text is one.
HiveInfer(s) == IF s \in DOMAIN PathInts THEN PathInts[s] ELSE s

RECURSIVE BagSum(_, _)
BagSum(S, f) ==
    IF S = {} THEN EmptyBag
    ELSE LET x == CHOOSE y \in S : TRUE
         IN  f[x] (+) BagSum(S \ {x}, f)

\* pq.write_to_dataset(table, root, partition_cols,
\* existing_data_behavior="overwrite_or_ignore"): one file named after the
\* fresh guid in each partition directory; the files already there stay.
write_to_dataset(files, table, partition_cols, guid) ==
    LET partOf(r) == [c \in partition_cols |-> PathValue(c, r[c])]
        parts == {partOf(r) : r \in DOMAIN table.rows}
        strip == [r \in DOMAIN table.rows |->
                    [c \in DOMAIN r \ partition_cols |-> r[c]]]
        rowsOf(p) == BagRestrict(table.rows,
                        {r \in DOMAIN table.rows : partOf(r) = p})
    IN  files \cup {[part |-> p, guid |-> guid,
                     columns |-> table.columns \ partition_cols,
                     rows |-> BagMap(rowsOf(p), strip)] : p \in parts}

FileNotFoundError == [status |-> "FileNotFoundError"]

\* The rows of one file with their partition columns.
FileRows(f) ==
    LET part == [c \in DOMAIN f.part |-> HiveInfer(f.part[c])]
    IN  BagMap(f.rows, [r \in DOMAIN f.rows |-> r @@ part])

\* load_silver_parquet: ds.dataset(root, partitioning="hive").to_table()
load_silver_parquet(files) ==
    IF files = {} THEN FileNotFoundError
    ELSE [status |-> "ok",
          columns |-> UNION {f.columns \cup DOMAIN f.part : f \in files},
          rows |-> BagSum(files, [f \in files |-> FileRows(f)])]

-----------------------------------------------------------------------------
(* transform_silver.py: Bronze -> Silver *)

\* load_dvf_year_to_df: the first listed file of the year, cleaned; an empty
\* frame when the prefix lists nothing.
load_dvf_year_to_df(bucket, year) ==
    LET Contents == list_objects_v2(bucket, DvfPrefix(year))
    IN  IF Contents = <<>>
        THEN [status |-> "ok", df |-> [columns |-> DVF_COLS, rows |-> EmptyBag]]
        ELSE clean_dvf(bucket[Contents[1]])

\* df["code_departement"] = df["Code departement"].astype(str).str.strip();
\* the department texts kept by the scope filter carry no blanks.
WithCodeDepartement(r) == r @@ [code_departement |-> r["Code departement"]]

DvfPartitionCols == {"code_departement", "annee", "trimestre"}

\* transform_dvf without its "if df.empty: return"
transform_dvf_unguarded(bucket) ==
    LET f2020 == load_dvf_year_to_df(bucket, "2020")
        f2021 == load_dvf_year_to_df(bucket, "2021")
        rows == f2020.df.rows (+) f2021.df.rows
    IN  [status |-> "ok",
         df |-> [columns |-> f2020.df.columns \cup f2021.df.columns
                               \cup {"code_departement"},
                 rows |-> BagMap(rows, [r \in DOMAIN rows |->
                                          WithCodeDepartement(r)])]]

\* transform_dvf up to the table it hands to write_parquet_partitioned.
transform_dvf(bucket) ==
    LET f2020 == load_dvf_year_to_df(bucket, "2020")
        f2021 == load_dvf_year_to_df(bucket, "2021")
    IN  IF f2020 = ValueError \/ f2021 = ValueError THEN ValueError
        ELSE
        LET rows == f2020.df.rows (+) f2021.df.rows
        IN  IF rows = EmptyBag THEN [status |-> "empty"]
            ELSE [status |-> "ok",
                  df |-> [columns |-> f2020.df.columns \cup f2021.df.columns
                                        \cup {"code_departement"},
                          rows |-> BagMap(rows, [r \in DOMAIN rows |->
                                                   WithCodeDepartement(r)])]]

DPE_COLS == {"date_etablissement_dpe", "classe_consommation_energie",
             "tv016_departement_code"}

\* The dates that the texts of the model's DPE batches denote for
\* pd.to_datetime(errors="coerce"); any other text is coerced to NaT.
DpeDateText ==
    [t \in {"2020-02-10", "2020-05-03", "2019-12-31"} |->
        CASE t = "2020-02-10" -> [year |-> 2020, month |-> 2, day |-> 10]
          [] t = "2019-12-31" -> [year |-> 2019, month |-> 12, day |-> 31]
          [] t = "2020-05-03" -> [year |-> 2020, month |-> 5, day |-> 3]]

\* to_clean_str on the number read_json makes of a department code
to_clean_str(x) == ToString(x)

\* df[keep] and the scope filter on one row of a batch.
DpeKept(r) ==
    LET kept == [c \in DOMAIN r \cap DPE_COLS |-> r[c]]
    IN  IF "tv016_departement_code" \in DOMAIN kept
        THEN [kept EXCEPT !.tv016_departement_code = to_clean_str(@)]
        ELSE kept

\* The date, annee and trimestre of a row whose date text parses.
DpeWithQuarter(r) ==
    LET date == DpeDateText[r.date_etablissement_dpe]
    IN  [r EXCEPT !.date_etablissement_dpe = date]
            @@ [annee |-> date.year, trimestre |-> to_period_Q(date)]

\* the body of the loop without the scope filter
clean_dpe_unscoped(rows) ==
    LET kept == BagMap(rows, [r \in DOMAIN rows |-> DpeKept(r)])
        dated == BagRestrict(kept,
                     {r \in DOMAIN kept :
                        "date_etablissement_dpe" \in DOMAIN r
                        /\ r.date_etablissement_dpe \in DOMAIN DpeDateText})
    IN  BagMap(dated, [r \in DOMAIN dated |-> DpeWithQuarter(r)])

\* The body of the loop of transform_dpe on the rows of one batch.  A column
\* is in the frame of a batch when a record of the batch has the field; the
\* scope filter and the date step are skipped for a frame without their
\* column.
clean_dpe(rows) ==
    LET kept == BagMap(rows, [r \in DOMAIN rows |-> DpeKept(r)])
        columns == UNION {DOMAIN r : r \in DOMAIN kept}
        scoped == IF "tv016_departement_code" \notin columns THEN kept
                  ELSE BagRestrict(kept,
                          {r \in DOMAIN kept :
                             "tv016_departement_code" \in DOMAIN r
                             /\ r.tv016_departement_code \in DEPARTEMENTS})
        dated == BagRestrict(scoped,
                     {r \in DOMAIN scoped :
                        "date_etablissement_dpe" \in DOMAIN r
                        /\ r.date_etablissement_dpe \in DOMAIN DpeDateText})
    IN  IF "date_etablissement_dpe" \notin columns THEN scoped
        ELSE BagMap(dated, [r \in DOMAIN dated |-> DpeWithQuarter(r)])

DpeSilverCols == DPE_COLS \cup {"annee", "trimestre"}

DpePartitionCols == {"tv016_departement_code", "annee", "trimestre"}

\* transform_dpe up to the table it hands to write_parquet_partitioned.
transform_dpe(bucket) ==
    LET listed(dept) == list_objects_v2(bucket, DpePrefix(dept))
        keys == UNION {{listed(dept)[i] : i \in DOMAIN listed(dept)}
                        : dept \in DEPARTEMENTS}
    IN  IF keys = {} THEN [status |-> "empty"]
        ELSE [status |-> "ok",
              df |-> [columns |-> DpeSilverCols,
                      rows |-> BagSum(keys, [k \in keys |-> clean_dpe(bucket[k])])]]

-----------------------------------------------------------------------------
(* Specification Spec: ingestion uploads, transform_silver.py and          *)
(* transform_gold.py run against the three buckets                         *)

\* The lines of the source files of the DVF ingestion.
DvfSourceRows(name) ==
    CASE name = "dvf-2020-a.txt" ->
            SetToBag({RawDvfRow("15/01/2020", "3000,00", "92", "1,5"),
                      RawDvfRow("15/01/2020", "3000,00", "92", "0"),
                      RawDvfRow("31/12/2019", "4500", "92", "2")})
      [] name = "dvf-2020-b.txt" ->
            SetToBag({RawDvfRow("15/01/2020", "4500", "59", "2"),
                      RawDvfRow("15/01/2020", "4500", "75", "2")})
      [] name = "dvf-2021.txt" ->
            SetToBag({RawDvfRow("30/04/2021", "3000,00", "92", "2")})

\* A record of a DPE batch as pd.read_json reads it.
DpeRecord(numero, date, dept, classe) ==
    [numero_dpe |-> numero, date_etablissement_dpe |-> date,
     tv016_departement_code |-> dept, classe_consommation_energie |-> classe]

\* The pages the DPE API serves: two for department 92, one for 59.
DpePages == {<<"92", 1>>, <<"92", 2>>, <<"59", 1>>}

DpePageRows(page) ==
    CASE page = <<"92", 1>> ->
            SetToBag({DpeRecord("n1", "2020-02-10", 92, "A"),
                      DpeRecord("n2", "2020-02-10", 92, "G")})
      [] page = <<"92", 2>> ->
            SetToBag({DpeRecord("n3", "2020-02-10", 92, "A"),
                      DpeRecord("n4", "date inconnue", 92, "B"),
                      DpeRecord("n8", "2019-12-31", 92, "C")})
      [] page = <<"59", 1>> ->
            SetToBag({DpeRecord("n5", "2020-05-03", 59, "C"),
                      DpeRecord("n6", "2020-02-10", 59, "N"),
                      DpeRecord("n7", "2020-02-10", 75, "A")})

Init == InitAggDpe

\* s3_client.upload_file: the object is created, or replaced under its key.
put_object(bucket, key, body) ==
    [k \in DOMAIN bucket \cup {key} |-> IF k = key THEN body ELSE bucket[k]]

\* How a transformation script ends, given what its stage did.  The main
\* of transform_silver.py and of transform_gold.py call their stages with no
\* try statement around them: a stage that returns lets main return, an
\* exception of a stage leaves main and ends the process with a traceback.
script_exit(status) ==
    IF status \in {"ok", "empty"} THEN "returned" ELSE "unhandled exception"

\* DVFIngestion.upload_to_minio of one source file, at the current second or
\* at a later one.
UploadDvf ==
    /\ Cardinality(DOMAIN bronze) + runs < MaxSteps
    /\ \E name \in DvfSourceFiles, dt \in 0..1 :
          /\ now' = now + dt
          /\ bronze' = put_object(bronze,
                          DvfKey(determine_year_from_filename(name), now', name),
                          DvfSourceRows(name))
    /\ lastOp' = [op |-> "ingest"]
    /\ UNCHANGED <<runVars, ingVars, pc, aggVars, loadVars, silver, goldBucket, guids, runs>>

\* DPEIngestion.save_batch_to_minio of one page; ingest_dept saves batch
\* n + 1 of a department only after batch n.
SaveBatch ==
    /\ Cardinality(DOMAIN bronze) + runs < MaxSteps
    /\ \E page \in DpePages, dt \in 0..1 :
          /\ page[2] > 1 =>
                \E k \in DOMAIN bronze :
                    k.prefix = DpePrefix(page[1]) /\ k.batch = page[2] - 1
          /\ now' = now + dt
          /\ bronze' = put_object(bronze, DpeKey(page[1], page[2], now'),
                                  DpePageRows(page))
    /\ lastOp' = [op |-> "ingest"]
    /\ UNCHANGED <<runVars, ingVars, pc, aggVars, loadVars, silver, goldBucket, guids, runs>>

\* main() of transform_silver.py: transform_dvf(), then transform_dpe(); an
\* exception of transform_dvf ends the script.  'warned' holds the datasets
\* for which the "abandon écriture Silver" warning was logged.
TransformSilver ==
    /\ Cardinality(DOMAIN bronze) + runs < MaxSteps
    /\ runs' = runs + 1
    /\ LET dvf == transform_dvf(bronze)
           dpe == transform_dpe(bronze)
           wroteDvf == dvf.status = "ok"
           wroteDpe == dvf.status # "ValueError" /\ dpe.status = "ok"
           dvfGuid == guids + 1
           dpeGuid == IF wroteDvf THEN guids + 2 ELSE guids + 1
       IN  /\ silver' =
                [dvf |-> IF wroteDvf
                         THEN write_to_dataset(silver.dvf, dvf.df,
                                               DvfPartitionCols, dvfGuid)
                         ELSE silver.dvf,
                 dpe |-> IF wroteDpe
                         THEN write_to_dataset(silver.dpe, dpe.df,
                                               DpePartitionCols, dpeGuid)
                         ELSE silver.dpe]
           /\ guids' = guids + (IF wroteDvf THEN 1 ELSE 0)
                             + (IF wroteDpe THEN 1 ELSE 0)
           /\ lastOp' = [op |-> "transform_silver",
                         dvf |-> IF wroteDvf THEN dvfGuid ELSE 0,
                         dpe |-> IF wroteDpe THEN dpeGuid ELSE 0,
                         warned |-> {d \in {"dvf"} : dvf.status = "empty"}
                                    \cup {d \in {"dpe"} :
                                            dvf.status # "ValueError"
                                            /\ dpe.status = "empty"},
                         exit |-> IF dvf.status = "ValueError"
                                  THEN script_exit(dvf.status)
                                  ELSE script_exit(dpe.status)]
    /\ UNCHANGED <<runVars, ingVars, pc, aggVars, loadVars, bronze, goldBucket, now>>

GoldPartitionCols == {"departement", "trimestre"}

\* main() of transform_gold.py: the two Silver datasets are loaded, the Gold
\* frame is built and written as one flat file and as a partitioned dataset;
\* a Silver dataset that cannot be read ends the script.
\* What build_gold would write before it has aggregated: the complete file
\* opened empty while the required columns are still unchecked.
build_gold_opens_output_first(dvfFiles, dpeFiles, gold, guid) ==
    LET dvf == load_silver_parquet(dvfFiles)
        dpe == load_silver_parquet(dpeFiles)
    IN  IF dvf = FileNotFoundError \/ dpe = FileNotFoundError
        THEN [status |-> "FileNotFoundError", gold |-> gold]
        ELSE IF agg_dvf(dvf) = ValueError \/ agg_dpe(dpe) = ValueError
        THEN [status |-> "ValueError",
              gold |-> [complete |-> [columns |-> {}, rows |-> EmptyBag],
                        parts |-> gold.parts]]
        ELSE LET frame == build_gold_frame(dvf, dpe)
             IN  [status |-> "ok",
                  gold |-> [complete |-> frame,
                            parts |-> write_to_dataset(gold.parts, frame,
                                         GoldPartitionCols, guid)]]

\* build_gold: the two Silver datasets are read, aggregated, joined, and the
\* result is written; an exception of a read or of an aggregation leaves
\* before write_parquet_partitioned is reached.
build_gold(dvfFiles, dpeFiles, gold, guid) ==
    LET dvf == load_silver_parquet(dvfFiles)
        dpe == load_silver_parquet(dpeFiles)
    IN  IF dvf = FileNotFoundError \/ dpe = FileNotFoundError
        THEN [status |-> "FileNotFoundError", gold |-> gold]
        ELSE IF agg_dvf(dvf) = ValueError \/ agg_dpe(dpe) = ValueError
        THEN [status |-> "ValueError", gold |-> gold]
        ELSE LET frame == build_gold_frame(dvf, dpe)
             IN  [status |-> "ok",
                  gold |-> [complete |-> frame,
                            parts |-> write_to_dataset(gold.parts, frame,
                                         GoldPartitionCols, guid)]]

TransformGold ==
    /\ Cardinality(DOMAIN bronze) + runs < MaxSteps
    /\ runs' = runs + 1
    /\ LET out == build_gold(silver.dvf, silver.dpe, goldBucket, guids + 1)
       IN  /\ goldBucket' = out.gold
           /\ guids' = IF out.status = "ok" THEN guids + 1 ELSE guids
           /\ lastOp' = [op |-> "transform_gold",
                         gold |-> IF out.status = "ok" THEN guids + 1 ELSE 0,
                         status |-> out.status,
                         exit |-> script_exit(out.status)]
    /\ UNCHANGED <<runVars, ingVars, pc, aggVars, loadVars, bronze, silver, now>>

Next == UploadDvf \/ SaveBatch \/ TransformSilver \/ TransformGold

Spec == Init /\ [][Next]_vars

-----------------------------------------------------------------------------
(* Specification SpecIngest: ingest_dpe_api.py and ingest_dvf_txt.py, each *)
(* run one after the other against the Bronze bucket                       *)

MaxIngestRuns == 1

\* self.departements, in the order ingest_all goes through them
departements == <<"92", "59", "34">>

\* Retry(total=6, status_forcelist=[429, 500, 502, 503, 504])
RetryTotal == 6
status_forcelist == {429, 500, 502, 503, 504}

\* The statuses the API answers a page request with in the model.
ApiStatuses == {200, 404, 429, 503}

NoToken == 0

\* j.get("results", []) and j.get("next") of the page a department's url
\* points to: the pages of DpePages, the last one without a next token.
ApiPageCount(dept) == Cardinality({p \in DpePages : p[1] = dept})

ApiResults(dept, page) ==
    IF <<dept, page>> \in DpePages THEN DpePageRows(<<dept, page>>) ELSE EmptyBag

ApiNext(dept, page) == IF page < ApiPageCount(dept) THEN page + 1 ELSE NoToken

CurrentDept == departements[ing.deptIdx]

\* The end of ingest_dept for the current department: ingest_all goes on
\* with the next department, or returns after the last one.
EndDept(st) ==
    LET out == [st EXCEPT !.returned =
                   Append(@, [dept |-> departements[st.deptIdx],
                              total_records |-> st.total_records,
                              batches |-> st.batch_num - 1])]
    IN  IF st.deptIdx < Len(departements)
        THEN [out EXCEPT !.deptIdx = @ + 1, !.batch_num = 1, !.page = 1,
                         !.total_records = 0, !.requests = <<>>,
                         !.attempts = 0, !.pc = "fetch",
                         !.visited = @ \cup {departements[st.deptIdx + 1]}]
        ELSE [out EXCEPT !.pc = "done"]

\* fetch_page returned ([], None): ingest_dept logs "Lot vide" and breaks.
EmptyBatch(st) ==
    EndDept([st EXCEPT !.warned = @ \cup {departements[st.deptIdx]}])

\* The script at the entry of ingest_dept for the first department.
DpeRunStart(run, max_batches) ==
    [script |-> "dpe", pc |-> "fetch", run |-> run, max_batches |-> max_batches,
     deptIdx |-> 1, batch_num |-> 1, page |-> 1, attempts |-> 0, status |-> 0,
     visited |-> {departements[1]}, warned |-> {}, failed |-> {}, saved |-> <<>>,
     total_records |-> 0, requests |-> <<>>, returned |-> <<>>, tmp |-> {}]

\* main() of ingest_dpe_api.py up to the first page request of ingest_all.
IngestAllDpe ==
    /\ ing.pc \in {"idle", "done", "crashed"}
    /\ ing.run < MaxIngestRuns
    /\ \E max_batches \in {1, 2} : ing' = DpeRunStart(ing.run + 1, max_batches)
    /\ UNCHANGED <<runVars, pc, aggVars, loadVars, storeVars>>

\* fetch_page, the request answered 200: the results go to the save, or an
\* empty result ends the department.
FetchPageOk ==
    /\ ing.script = "dpe" /\ ing.pc = "fetch"
    /\ LET st == [ing EXCEPT !.status = 200, !.requests = Append(@, ing.page)]
       IN  ing' = IF ApiResults(CurrentDept, ing.page) # EmptyBag
                  THEN [st EXCEPT !.pc = "save"]
                  ELSE EmptyBatch(st)
    /\ UNCHANGED <<runVars, pc, aggVars, loadVars, storeVars>>

\* fetch_page, the request answered with a status of the forcelist while
\* the session has retries left: the request is sent again.
FetchPageRetry ==
    /\ ing.script = "dpe" /\ ing.pc = "fetch"
    /\ ing.attempts < RetryTotal
    /\ \E status \in ApiStatuses \cap status_forcelist :
          ing' = [ing EXCEPT !.status = status, !.attempts = @ + 1]
    /\ UNCHANGED <<runVars, pc, aggVars, loadVars, storeVars>>

\* a RetryError that nothing catches
RetriesExhaustedRaises(st) == [st EXCEPT !.pc = "crashed"]

\* The RetryError of the exhausted session is a RequestException: fetch_page
\* catches it and returns ([], None).
RetriesExhausted(st) == EmptyBatch(st)

\* fetch_page, the request answered with a status of the forcelist and no
\* retry left.
FetchPageAbandon ==
    /\ ing.script = "dpe" /\ ing.pc = "fetch"
    /\ ing.attempts = RetryTotal
    /\ \E status \in ApiStatuses \cap status_forcelist :
          ing' = RetriesExhausted([ing EXCEPT !.status = status,
                                               !.requests = Append(@, ing.page)])
    /\ UNCHANGED <<runVars, pc, aggVars, loadVars, storeVars>>

\* fetch_page, the request answered with an error status outside the
\* forcelist: raise_for_status raises, ([], None) is returned at once.
FetchPageError ==
    /\ ing.script = "dpe" /\ ing.pc = "fetch"
    /\ \E status \in ApiStatuses \ (status_forcelist \cup {200}) :
          ing' = EmptyBatch([ing EXCEPT !.status = status,
                                        !.requests = Append(@, ing.page)])
    /\ UNCHANGED <<runVars, pc, aggVars, loadVars, storeVars>>

\* a loop that goes on as long as there is a continuation token
loop_ignores_max_batches(url, batch_num, max_batches) == url # NoToken

\* while url and (not max_batches or batch_num <= max_batches); a
\* max_batches of None counts as 0.
loop_continues(url, batch_num, max_batches) ==
    url # NoToken /\ (max_batches = 0 \/ batch_num <= max_batches)

\* The temporary file of save_batch_to_minio: /tmp/dpe_batch_<n>_<ts>.json
temp_file(batch_num, ts) == [batch |-> batch_num, ts |-> ts]

\* save_batch_to_minio succeeds: the temporary file is written, uploaded and
\* removed.  Then the end of the loop body of ingest_dept: the record total,
\* the next url, the break on a missing token, the batch number, the loop
\* condition.
SaveBatchOk ==
    /\ ing.script = "dpe" /\ ing.pc = "save"
    /\ \E dt \in 0..1 :
          LET key == DpeKey(CurrentDept, ing.batch_num, now + dt)
              next_url == ApiNext(CurrentDept, ing.page)
              st == [ing EXCEPT
                        !.saved = Append(@, [page |-> <<CurrentDept, ing.page>>,
                                             key |-> key]),
                        !.total_records =
                           @ + BagCardinality(ApiResults(CurrentDept, ing.page))]
              incremented == [st EXCEPT !.batch_num = @ + 1]
          IN  /\ now' = now + dt
              /\ bronze' = put_object(bronze, key,
                                      ApiResults(CurrentDept, ing.page))
              /\ ing' = IF next_url = NoToken THEN EndDept(st)
                        ELSE IF loop_continues(next_url, incremented.batch_num,
                                               ing.max_batches)
                        THEN [incremented EXCEPT !.page = next_url,
                                                 !.attempts = 0, !.pc = "fetch"]
                        ELSE EndDept(incremented)
    /\ UNCHANGED <<runVars, pc, aggVars, loadVars, silver, goldBucket, guids, runs, lastOp>>

\* a save failure that ends ingest_all
SaveFailedEndsRun(st) ==
    [st EXCEPT !.failed = @ \cup {departements[st.deptIdx]}, !.pc = "done"]

\* ingest_dept on a save that returned None: an error is logged and the
\* loop of the department is left.
SaveFailed(st) ==
    EndDept([st EXCEPT !.failed = @ \cup {departements[st.deptIdx]}])

\* save_batch_to_minio fails and returns None.  The exception is caught
\* wherever it is raised: in open, before the temporary file exists; in
\* upload_file, after the temporary file was written and before the object
\* is stored; in os.remove, after the object was stored.  Nothing removes
\* the temporary file in the except clause.
SaveBatchFail ==
    /\ ing.script = "dpe" /\ ing.pc = "save"
    /\ \E raised \in {"open", "upload_file", "os.remove"}, dt \in 0..1 :
          /\ now' = now + dt
          /\ ing' = SaveFailed(
                       IF raised = "open" THEN ing
                       ELSE [ing EXCEPT !.tmp =
                                @ \cup {temp_file(ing.batch_num, now + dt)}])
          /\ bronze' = IF raised = "os.remove"
                       THEN put_object(bronze,
                               DpeKey(CurrentDept, ing.batch_num, now + dt),
                               ApiResults(CurrentDept, ing.page))
                       ELSE bronze
    /\ UNCHANGED <<runVars, pc, aggVars, loadVars, silver, goldBucket, guids, runs, lastOp>>

\* The script at the entry of the loop of ingest_all: find_dvf_files lists
\* each file of the source directory once.
DvfRunStart(run) ==
    [script |-> "dvf", pc |-> "upload", run |-> run, files |-> DvfSourceFiles,
     successful |-> 0, failed |-> 0, saved |-> <<>>]

\* main() of ingest_dvf_txt.py up to the loop of ingest_all.
IngestAllDvf ==
    /\ ing.pc \in {"idle", "done", "crashed"}
    /\ ing.run < MaxIngestRuns
    /\ ing' = DvfRunStart(ing.run + 1)
    /\ UNCHANGED <<runVars, pc, aggVars, loadVars, storeVars>>

\* The loop of ingest_all after one file: the next file, or the end.
NextFile(st, name) ==
    [st EXCEPT !.files = @ \ {name},
               !.pc = IF st.files = {name} THEN "done" ELSE "upload"]

\* process_file of the next file, upload_to_minio succeeds.
ProcessFileOk ==
    /\ ing.script = "dvf" /\ ing.pc = "upload"
    /\ \E name \in ing.files, dt \in 0..1 :
          LET key == DvfKey(determine_year_from_filename(name), now + dt, name)
          IN  /\ now' = now + dt
              /\ bronze' = put_object(bronze, key, DvfSourceRows(name))
              /\ ing' = NextFile([ing EXCEPT
                            !.successful = @ + 1,
                            !.saved = Append(@, [file |-> name, key |-> key])],
                            name)
    /\ UNCHANGED <<runVars, pc, aggVars, loadVars, silver, goldBucket, guids, runs, lastOp>>

\* process_file of the next file, upload_file raises a ClientError:
\* upload_to_minio returns None and the file counts as failed.
ProcessFileClientError ==
    /\ ing.script = "dvf" /\ ing.pc = "upload"
    /\ \E name \in ing.files :
          ing' = NextFile([ing EXCEPT !.failed = @ + 1], name)
    /\ UNCHANGED <<runVars, pc, aggVars, loadVars, storeVars>>

\* process_file of the next file, upload_file raises another exception
\* (S3UploadFailedError, a connection error): nothing catches it and the
\* script ends.
ProcessFileRaises ==
    /\ ing.script = "dvf" /\ ing.pc = "upload"
    /\ ing' = [ing EXCEPT !.pc = "crashed"]
    /\ UNCHANGED <<runVars, pc, aggVars, loadVars, storeVars>>

NextIngest ==
    \/ IngestAllDpe \/ FetchPageOk \/ FetchPageRetry \/ FetchPageAbandon
    \/ FetchPageError \/ SaveBatchOk \/ SaveBatchFail
    \/ IngestAllDvf \/ ProcessFileOk \/ ProcessFileClientError
    \/ ProcessFileRaises

InitIngest == InitAggDpe

SpecIngest == InitIngest /\ [][NextIngest]_vars

\* The script that has ended is started once more.
Reingest ==
    /\ ing.pc \in {"done", "crashed"}
    /\ ing.run <= MaxIngestRuns
    /\ ing' = IF ing.script = "dpe"
              THEN DpeRunStart(ing.run + 1, ing.max_batches)
              ELSE DvfRunStart(ing.run + 1)
    /\ UNCHANGED <<runVars, pc, aggVars, loadVars, storeVars>>

NextReingest == NextIngest \/ Reingest

\* An ingestion run followed by re-runs of the same script.
SpecReingest == InitIngest /\ [][NextReingest]_vars

-----------------------------------------------------------------------------
(* Specification SpecBuildGold: transform_gold.py run on a Silver bucket    *)
(* whose datasets may lack columns                                          *)

\* A Bronze bucket with one DVF file and one DPE batch.
BaseBronze ==
    put_object(put_object(<<>>, DvfKey("2020", 0, "dvf-2020-a.txt"),
                          DvfSourceRows("dvf-2020-a.txt")),
               DpeKey("92", 1, 0), DpePageRows(<<"92", 1>>))

\* The Silver bucket transform_silver.py writes from BaseBronze.
BaseSilver ==
    [dvf |-> write_to_dataset({}, transform_dvf(BaseBronze).df,
                              DvfPartitionCols, 1),
     dpe |-> write_to_dataset({}, transform_dpe(BaseBronze).df,
                              DpePartitionCols, 2)]

\* The columns agg_dvf asks for, by the names they have in Silver.
DvfRequired == {"code_departement", "trimestre", "prix_m2"}

\* A dataset without the columns cols, whether they are partition
\* directories or columns of the files.  Both spellings of the DVF
\* department column go together.
DropColumns(files, cols) ==
    LET gone == cols \cup (IF "code_departement" \in cols
                           THEN {"Code departement"} ELSE {})
        strip(f) == [r \in DOMAIN f.rows |->
                       [c \in DOMAIN r \ gone |-> r[c]]]
    IN  {[part |-> [c \in DOMAIN f.part \ gone |-> f.part[c]],
          guid |-> f.guid,
          columns |-> f.columns \ gone,
          rows |-> BagMap(f.rows, strip(f))] : f \in files}

\* The Silver datasets exist, each without some of the required columns;
\* the Gold prefix is empty or holds the output of an earlier run on the
\* complete datasets.
InitBuildGold ==
    /\ pc = "input"
    /\ dpeIn = EmptyDpe
    /\ dpeAgg = NotRun
    /\ dvfIn = EmptyDvf
    /\ dvfAgg = NotRun
    /\ goldDf = NotRun
    /\ dvfFile = EmptyBag
    /\ dvfLoaded = NotRun
    /\ bronze = <<>>
    /\ \E dv \in SUBSET DvfRequired, dp \in SUBSET DpeNeeded :
          silver = [dvf |-> DropColumns(BaseSilver.dvf, dv),
                    dpe |-> DropColumns(BaseSilver.dpe, dp)]
    /\ \E earlier \in BOOLEAN :
          /\ goldBucket =
                IF earlier
                THEN build_gold(BaseSilver.dvf, BaseSilver.dpe,
                                [complete |-> NotRun, parts |-> {}], 3).gold
                ELSE [complete |-> NotRun, parts |-> {}]
          /\ guids = IF earlier THEN 3 ELSE 2
    /\ now = 0
    /\ runs = 0
    /\ lastOp = [op |-> "none"]
    /\ ing = [script |-> "none", pc |-> "idle", run |-> 0]
    /\ analytics = [pc |-> "idle"]
    /\ writers = <<>>

NextBuildGold == TransformGold

SpecBuildGold == InitBuildGold /\ [][NextBuildGold]_vars

-----------------------------------------------------------------------------
(* Specification SpecWriteFail: the transformation scripts when a write to  *)
(* the object store can fail                                                *)

OSError == [status |-> "OSError"]

\* pq.write_to_dataset writes one file per partition; when the store fails
\* during the call, the files already written stay: any of the files of the
\* call but not all of them.
PartialWrites(table, partition_cols, guid) ==
    LET all == write_to_dataset({}, table, partition_cols, guid)
    IN  {written \in SUBSET all : written # all}

\* transform_silver.py when write_parquet_partitioned raises, in
\* transform_dvf or in transform_dpe: nothing catches the exception, the
\* script ends there.  A failure in transform_dvf leaves before
\* transform_dpe; a failure in transform_dpe comes after the DVF write.
TransformSilverWriteFails ==
    /\ Cardinality(DOMAIN bronze) + runs < MaxSteps
    /\ runs' = runs + 1
    /\ LET dvf == transform_dvf(bronze)
           dpe == transform_dpe(bronze)
           wroteDvf == dvf.status = "ok"
           dvfGuid == guids + 1
           dpeGuid == IF wroteDvf THEN guids + 2 ELSE guids + 1
       IN  \/ /\ dvf.status = "ok"
              /\ \E written \in PartialWrites(dvf.df, DvfPartitionCols, dvfGuid) :
                    silver' = [silver EXCEPT !.dvf = @ \cup written]
              /\ guids' = dvfGuid
              /\ lastOp' = [op |-> "transform_silver", dvf |-> 0, dpe |-> 0,
                            warned |-> {}, status |-> OSError.status,
                            exit |-> script_exit(OSError.status)]
           \/ /\ dvf.status # "ValueError" /\ dpe.status = "ok"
              /\ \E written \in PartialWrites(dpe.df, DpePartitionCols, dpeGuid) :
                    silver' =
                       [dvf |-> IF wroteDvf
                                THEN write_to_dataset(silver.dvf, dvf.df,
                                                      DvfPartitionCols, dvfGuid)
                                ELSE silver.dvf,
                        dpe |-> silver.dpe \cup written]
              /\ guids' = dpeGuid
              /\ lastOp' = [op |-> "transform_silver",
                            dvf |-> IF wroteDvf THEN dvfGuid ELSE 0,
                            dpe |-> 0,
                            warned |-> {d \in {"dvf"} : dvf.status = "empty"},
                            status |-> OSError.status,
                            exit |-> script_exit(OSError.status)]
    /\ UNCHANGED <<runVars, ingVars, pc, aggVars, loadVars, bronze, goldBucket, now>>

\* transform_gold.py when write_parquet_partitioned raises: in pq.write_table
\* (nothing is stored), or in pq.write_to_dataset, after
\* gold_complete.parquet was stored.  Nothing catches the exception and
\* nothing is removed.
TransformGoldWriteFails ==
    /\ Cardinality(DOMAIN bronze) + runs < MaxSteps
    /\ runs' = runs + 1
    /\ LET out == build_gold(silver.dvf, silver.dpe, goldBucket, guids + 1)
       IN  /\ out.status = "ok"
           /\ \/ goldBucket' = goldBucket
              \/ \E written \in PartialWrites(out.gold.complete,
                                              GoldPartitionCols, guids + 1) :
                    goldBucket' = [complete |-> out.gold.complete,
                                   parts |-> goldBucket.parts \cup written]
    /\ guids' = guids + 1
    /\ lastOp' = [op |-> "transform_gold", gold |-> 0,
                  status |-> OSError.status,
                  exit |-> script_exit(OSError.status)]
    /\ UNCHANGED <<runVars, ingVars, pc, aggVars, loadVars, bronze, silver, now>>

NextWriteFail ==
    \/ UploadDvf
    \/ SaveBatch
    \/ TransformSilver
    \/ TransformGold
    \/ TransformSilverWriteFails
    \/ TransformGoldWriteFails

SpecWriteFail == Init /\ [][NextWriteFail]_vars

-----------------------------------------------------------------------------
(* Specification SpecAnalytics: run_business_analytics on frames whose      *)
(* columns are drawn from a bounded family                                  *)

\* The nine analyses, in the order run_business_analytics calls them.
AnalysisNames ==
    <<"decote_verte", "prime_verte", "evolution_temporelle",
      "heterogeneite_spatiale", "effet_surface", "type_bien",
      "densite_urbaine", "seuils_prix", "anticipation_reglementaire">>

\* required_cols of an analysis of gold_df.
required_cols(name) ==
    CASE name = "prime_verte" ->
            {"departement", "trimestre", "prix_m2_median",
             "classe_A", "classe_B", "classe_D"}
      [] name \in {"evolution_temporelle", "anticipation_reglementaire"} ->
            {"departement", "trimestre", "annee", "prix_m2_median", "dpe_total"}
      [] OTHER ->
            {"departement", "trimestre", "prix_m2_median", "dpe_total"}

\* What the body of a try block does: it returns a dictionary or it raises.
Returned(value) == [kind |-> "return", value |-> value]
Raised(exc) == [kind |-> "raise", exc |-> exc]

Succes(name) == [status |-> "succès", result |-> name]
Erreur(message) == [status |-> "erreur", message |-> message]

\* The columns analyze_decote_verte indexes before any check.
DecoteDpeCols == {"classe_consommation_energie", "code_insee_commune_actualise"}

\* The outcomes of the try block of an analysis on frames with the given
\* columns.  A column that is indexed without a check raises KeyError; the
\* missing-column check of the analyses of gold_df returns an error
\* dictionary; past the checks the computation succeeds, returns the error
\* of an empty selection where the analysis has one, or raises.
BodyOutcomes(name, dvfCols, dpeCols, goldCols) ==
    IF name = "decote_verte"
    THEN IF DecoteDpeCols \ dpeCols # {} \/ "Code commune" \notin dvfCols
         THEN {Raised("KeyError")}
         ELSE {Returned(Succes(name)),
               Returned(Erreur("Classes D, F, G non disponibles")),
               Raised("Exception")}
    ELSE IF required_cols(name) \ goldCols # {}
         THEN {Returned(Erreur("Colonnes manquantes"))}
         ELSE {Returned(Succes(name)), Raised("Exception")}
              \cup (IF name = "prime_verte"
                    THEN {Returned(Erreur("Aucune donnée"))} ELSE {})

\* An analysis whose except clause lets the exception through.
try_except_reraises(outcome) ==
    IF outcome.kind = "raise"
    THEN [status |-> "raised", message |-> outcome.exc]
    ELSE outcome.value

\* try: ... except Exception as e: return {"status": "erreur",
\* "message": str(e)}
try_except(outcome) ==
    IF outcome.kind = "raise" THEN Erreur(outcome.exc) ELSE outcome.value

\* The columns the frames handed to run_business_analytics are drawn from.
GoldColumnSets ==
    LET all == {"departement", "trimestre", "annee", "prix_m2_median",
                "dpe_total", "classe_A", "classe_B", "classe_D"}
    IN  {all, all \ {"annee"}, all \ {"dpe_total"}, all \ {"classe_A"}}

DvfColumnSets ==
    {DVF_COLS \cup {"prix_m2"}, DVF_COLS \cup {"prix_m2", "Code commune"}}

DpeColumnSets ==
    {DpeNeeded, DpeNeeded \cup {"code_insee_commune_actualise"}}

\* run_business_analytics is called.
RunBusinessAnalytics ==
    /\ analytics.pc = "idle"
    /\ \E dvfCols \in DvfColumnSets, dpeCols \in DpeColumnSets,
          goldCols \in GoldColumnSets :
          analytics' = [pc |-> "running", dvf_silver |-> dvfCols,
                        dpe_silver |-> dpeCols, gold_df |-> goldCols,
                        results |-> <<>>]
    /\ UNCHANGED <<writers, ingVars, pc, aggVars, loadVars, storeVars>>

\* The next analysis is called and its dictionary is stored in results; an
\* exception that leaves the analysis leaves run_business_analytics.
Analyze ==
    /\ analytics.pc = "running"
    /\ Len(analytics.results) < Len(AnalysisNames)
    /\ LET name == AnalysisNames[Len(analytics.results) + 1]
       IN  \E outcome \in BodyOutcomes(name, analytics.dvf_silver,
                                       analytics.dpe_silver, analytics.gold_df) :
              LET r == try_except(outcome)
              IN  analytics' =
                     IF r.status = "raised"
                     THEN [analytics EXCEPT !.pc = "raised"]
                     ELSE [analytics EXCEPT !.results = Append(@, r)]
    /\ UNCHANGED <<writers, ingVars, pc, aggVars, loadVars, storeVars>>

\* return results
ReturnResults ==
    /\ analytics.pc = "running"
    /\ Len(analytics.results) = Len(AnalysisNames)
    /\ analytics' = [analytics EXCEPT !.pc = "returned"]
    /\ UNCHANGED <<writers, ingVars, pc, aggVars, loadVars, storeVars>>

NextAnalytics == RunBusinessAnalytics \/ Analyze \/ ReturnResults

InitAnalytics == InitAggDpe

SpecAnalytics == InitAnalytics /\ [][NextAnalytics]_vars

-----------------------------------------------------------------------------
(* Specification SpecConcurrentGold: two runs of transform_gold.py that     *)
(* overlap, while ingestion and transform_silver.py go on                   *)

\* The processes that run transform_gold.py.
GoldRuns == {1, 2}

\* A run that stores gold_complete.parquet only when the key is free.
put_complete_if_absent(gold, frame) ==
    IF gold.complete = NotRun THEN [gold EXCEPT !.complete = frame] ELSE gold

\* pq.write_table(table, complete_file): the object store replaces the whole
\* object under the key when the upload completes.
put_complete(gold, frame) == [gold EXCEPT !.complete = frame]

\* build_gold of process p up to the table: the Silver datasets are read as
\* they are at this moment and aggregated.  A run whose read or aggregation
\* raises ends here.
StartGold(p) ==
    /\ writers[p].pc = "idle"
    /\ LET out == build_gold(silver.dvf, silver.dpe, goldBucket, 0)
       IN  writers' =
              [writers EXCEPT ![p] =
                 IF out.status = "ok"
                 THEN [pc |-> "write_table", table |-> out.gold.complete]
                 ELSE [pc |-> "done", status |-> out.status]]
    /\ UNCHANGED <<analytics, ingVars, pc, aggVars, loadVars, storeVars>>

\* Step 1 of write_parquet_partitioned of process p.
WriteTable(p) ==
    /\ writers[p].pc = "write_table"
    /\ goldBucket' = put_complete(goldBucket, writers[p].table)
    /\ writers' = [writers EXCEPT ![p].pc = "write_to_dataset"]
    /\ UNCHANGED <<analytics, ingVars, pc, aggVars, loadVars,
                   bronze, silver, now, guids, runs, lastOp>>

\* Step 2 of write_parquet_partitioned of process p; the guid of the file
\* names is drawn by this call.
WriteToDataset(p) ==
    /\ writers[p].pc = "write_to_dataset"
    /\ goldBucket' = [goldBucket EXCEPT !.parts =
                         write_to_dataset(@, writers[p].table,
                                          GoldPartitionCols, guids + 1)]
    /\ guids' = guids + 1
    /\ writers' = [writers EXCEPT ![p] = [pc |-> "done", status |-> "ok",
                                          table |-> @.table,
                                          guid |-> guids + 1]]
    /\ UNCHANGED <<analytics, ingVars, pc, aggVars, loadVars,
                   bronze, silver, now, runs, lastOp>>

\* The buckets after one DVF file and one DPE batch were ingested and
\* transform_silver.py ran; no run of transform_gold.py has started.
InitConcurrentGold ==
    /\ pc = "input"
    /\ dpeIn = EmptyDpe
    /\ dpeAgg = NotRun
    /\ dvfIn = EmptyDvf
    /\ dvfAgg = NotRun
    /\ goldDf = NotRun
    /\ dvfFile = EmptyBag
    /\ dvfLoaded = NotRun
    /\ bronze = BaseBronze
    /\ silver = BaseSilver
    /\ goldBucket = [complete |-> NotRun, parts |-> {}]
    /\ now = 0
    /\ guids = 2
    /\ runs = 0
    /\ lastOp = [op |-> "none"]
    /\ ing = [script |-> "none", pc |-> "idle", run |-> 0]
    /\ analytics = [pc |-> "idle"]
    /\ writers = [p \in GoldRuns |-> [pc |-> "idle"]]

NextConcurrentGold ==
    \/ \E p \in GoldRuns : StartGold(p)
    \/ \E p \in GoldRuns : WriteTable(p)
    \/ \E p \in GoldRuns : WriteToDataset(p)
    \/ UploadDvf
    \/ SaveBatch
    \/ TransformSilver

SpecConcurrentGold == InitConcurrentGold /\ [][NextConcurrentGold]_vars

-----------------------------------------------------------------------------
(* Specification SpecGoldRuns: the pipeline continued from buckets that     *)
(* transform_silver.py, and possibly transform_gold.py, have already        *)
(* written                                                                  *)

\* The buckets after one DVF file and one DPE batch were ingested and
\* transform_silver.py ran, before or after a first run of
\* transform_gold.py.
InitGoldRuns ==
    /\ pc = "input"
    /\ dpeIn = EmptyDpe
    /\ dpeAgg = NotRun
    /\ dvfIn = EmptyDvf
    /\ dvfAgg = NotRun
    /\ goldDf = NotRun
    /\ dvfFile = EmptyBag
    /\ dvfLoaded = NotRun
    /\ bronze = BaseBronze
    /\ silver = BaseSilver
    /\ \E earlier \in BOOLEAN :
          /\ goldBucket =
                IF earlier
                THEN build_gold(BaseSilver.dvf, BaseSilver.dpe,
                                [complete |-> NotRun, parts |-> {}], 3).gold
                ELSE [complete |-> NotRun, parts |-> {}]
          /\ guids = IF earlier THEN 3 ELSE 2
    /\ now = 0
    /\ runs = 0
    /\ lastOp = [op |-> "none"]
    /\ ing = [script |-> "none", pc |-> "idle", run |-> 0]
    /\ analytics = [pc |-> "idle"]
    /\ writers = <<>>

SpecGoldRuns == InitGoldRuns /\ [][Next]_vars

-----------------------------------------------------------------------------
(* Properties of agg_dpe, checked under SpecAggDpe *)

\* Sum of the class percentages of a row, in tenths of a percent.
PctSum(r) ==
    LET cs == {c \in CLASSES : PctCol(c) \in DOMAIN r}
    IN  SumOver(cs, [c \in cs |-> r[PctCol(c)]])

AggDpeRows == IF pc = "done" THEN DOMAIN dpeAgg.rows ELSE {}

\* Rows of the input that agg_dpe counts for key k and class c, counted
\* directly on the input frame.
DpeCounted(k, c) ==
    BagCardinality(BagRestrict(dpeIn.rows,
        {r \in DOMAIN dpeIn.rows :
            /\ DpeNeeded \subseteq DOMAIN r
            /\ ToString(r.tv016_departement_code) = k[1]
            /\ r.trimestre = k[2]
            /\ r.classe_consommation_energie = c}))

DpeKeysIn ==
    {<<ToString(r.tv016_departement_code), r.trimestre>> :
        r \in {x \in DOMAIN dpeIn.rows : DpeNeeded \subseteq DOMAIN x}}

DpeClassesIn ==
    {c \in CLASSES : \E k \in DpeKeysIn : DpeCounted(k, c) > 0}

DpeTotalIn(k) == SumOver(CLASSES, [c \in CLASSES |-> DpeCounted(k, c)])

\* p (tenths of a percent) is count/total*100 rounded to one decimal
IsPctOf(p, count, total) ==
    LET diff == p * total - count * 1000
    IN  2 * diff <= total /\ -2 * diff <= total

\* C1 (as claimed): every row with dpe_total > 0 has class percentages
\* summing to a value between 99.9 and 100.1.
C1_PctSumWithinOneTenth ==
    \A r \in AggDpeRows : r.dpe_total > 0 => PctSum(r) \in 999..1001

\* C1 (amended): every row with dpe_total > 0 has class percentages summing
\* to a value between 99.7 and 100.3.
C1_PctSumWithinThreeTenths ==
    \A r \in AggDpeRows : r.dpe_total > 0 => PctSum(r) \in 997..1003

\* C1 witness: a row of six classes with one diagnostic each sums to 100.2.
C1_Witness ==
    \E r \in AggDpeRows : r.dpe_total = 6 /\ PctSum(r) = 1002

\* C2 (context): no row returned by agg_dpe has dpe_total = 0, so the
\* "else 0.0" branch of the percentage is never taken on a Gold row.
C2_DpeTotalNeverZero ==
    \A r \in AggDpeRows : r.dpe_total >= 1

-----------------------------------------------------------------------------
(* Properties of agg_dvf and of the join, checked under SpecGold *)

GoldRows == IF pc = "done" THEN DOMAIN goldDf.rows ELSE {}

\* The rows of the DVF input with a department, a quarter and a price, of
\* key k, taken directly from the input frame.
DvfCounted(k) ==
    BagRestrict(dvfIn.rows,
        {r \in DOMAIN dvfIn.rows :
            /\ {"code_departement", "trimestre", "prix_m2"} \subseteq DOMAIN r
            /\ ToString(r.code_departement) = k[1]
            /\ r.trimestre = k[2]})

DvfKeysIn ==
    {<<ToString(r.code_departement), r.trimestre>> :
        r \in {x \in DOMAIN dvfIn.rows :
                 {"code_departement", "trimestre", "prix_m2"} \subseteq DOMAIN x}}

\* v is n/d rounded to 0 decimals (d > 0)
IsRounded(v, n, d) ==
    LET diff == v * d - n
    IN  2 * diff <= d /\ -2 * diff <= d

RECURSIVE ProdDen(_)
ProdDen(S) ==
    IF S = {} THEN 1
    ELSE LET r == CHOOSE x \in S : TRUE IN r.prix_m2.d * ProdDen(S \ {r})

\* v is the arithmetic mean of the prices of bag g rounded to 0 decimals
IsRoundedMean(v, g) ==
    LET L == ProdDen(DOMAIN g)
        scaled == [r \in DOMAIN g |-> g[r] * r.prix_m2.n * (L \div r.prix_m2.d)]
    IN  IsRounded(v, SumOver(DOMAIN g, scaled), L * BagCardinality(g))

\* m is the median of the prices of bag g: fewer than half of the prices
\* lie below it and fewer than half above it, or exactly half lie on each
\* side and m is halfway between the two prices next to it.
IsMedian(m, g) ==
    LET n == BagCardinality(g)
        below == {r \in DOMAIN g : FracLess(r.prix_m2, m)}
        above == {r \in DOMAIN g : FracLess(m, r.prix_m2)}
        b == SumOver(below, g)
        a == SumOver(above, g)
    IN  \/ 2 * b < n /\ 2 * a < n
        \/ /\ 2 * b = n /\ 2 * a = n
           /\ \E lo \in below, hi \in above :
                 /\ \A r \in below : ~FracLess(lo.prix_m2, r.prix_m2)
                 /\ \A r \in above : ~FracLess(r.prix_m2, hi.prix_m2)
                 /\ 2 * m.n * lo.prix_m2.d * hi.prix_m2.d
                      = m.d * (lo.prix_m2.n * hi.prix_m2.d + hi.prix_m2.n * lo.prix_m2.d)

MedianCandidates(g) ==
    {r.prix_m2 : r \in DOMAIN g}
    \cup {Frac(x.prix_m2.n * y.prix_m2.d + y.prix_m2.n * x.prix_m2.d,
                2 * x.prix_m2.d * y.prix_m2.d) : x \in DOMAIN g, y \in DOMAIN g}

IsRoundedMedian(v, g) ==
    \E m \in MedianCandidates(g) : IsMedian(m, g) /\ IsRounded(v, m.n, m.d)

\* C4: the Gold table holds at most one row for each (departement,
\* trimestre) pair.
C4_OneRowPerKey ==
    \A r \in GoldRows :
        /\ goldDf.rows[r] = 1
        /\ \A r2 \in GoldRows : JoinKey(r2) = JoinKey(r) => r2 = r

\* C4 witness: a key with two sales and diagnostics of two classes gives a
\* single Gold row, beside the row of another key.
C4_Witness ==
    /\ pc = "done"
    /\ BagCardinality(DvfCounted(<<"92", "2020Q1">>)) = 2
    /\ \E r \in GoldRows :
          /\ JoinKey(r) = <<"92", "2020Q1">>
          /\ {"classe_A", "classe_G"} \subseteq DOMAIN r
          /\ r.nb_ventes = 2 /\ r.classe_A = 1 /\ r.classe_G = 1
    /\ \E r \in GoldRows : JoinKey(r) # <<"92", "2020Q1">>

IsDpeCol(c) ==
    \/ c = "dpe_total"
    \/ \E x \in CLASSES : c = ClasseCol(x) \/ c = PctCol(x)

\* C5: every key of the DVF aggregate yields exactly one Gold row; when
\* the key has no DPE aggregate row, dpe_total and the class counts and
\* percentages of the row are null (and dpe_total is a column of the
\* table); when it has one, dpe_total is its total; a key that occurs only
\* in the DPE aggregate yields no Gold row.
C5_LeftJoin ==
    pc = "done" =>
        /\ "dpe_total" \in goldDf.columns
        /\ \A k \in DvfKeysIn :
              BagCardinality(BagRestrict(goldDf.rows,
                  {r \in GoldRows : JoinKey(r) = k})) = 1
        /\ \A r \in GoldRows :
              /\ JoinKey(r) \in DvfKeysIn
              /\ IF DpeTotalIn(JoinKey(r)) = 0
                 THEN \A c \in goldDf.columns : IsDpeCol(c) => ~notna(r, c)
                 ELSE notna(r, "dpe_total") /\ r.dpe_total = DpeTotalIn(JoinKey(r))

\* C5 witness: one Gold row joined with its DPE aggregate, one Gold row
\* with null DPE fields, and a key of the DPE aggregate without Gold row.
C5_Witness ==
    /\ pc = "done"
    /\ \E r \in GoldRows : notna(r, "dpe_total") /\ r.dpe_total > 0
    /\ \E r \in GoldRows :
          /\ ~notna(r, "dpe_total")
          /\ \E c \in goldDf.columns : c # "dpe_total" /\ IsDpeCol(c)
    /\ \E a \in DOMAIN dpeAgg.rows :
          \A r \in GoldRows : JoinKey(r) # JoinKey(a)

-----------------------------------------------------------------------------
(* Properties of load_dvf_year_to_df, checked under SpecLoadDvf *)

LoadedRows ==
    IF pc = "done" /\ dvfLoaded.status = "ok" THEN DOMAIN dvfLoaded.df.rows ELSE {}

DividedRows ==
    IF pc = "done" /\ dvfLoaded.status = "ok" THEN DOMAIN dvfLoaded.divided ELSE {}

\* C3: every row returned by load_dvf_year_to_df has a surface > 0 and a
\* prix_m2 equal to its value divided by its surface, and the division was
\* evaluated only on rows that have a surface and whose surface is > 0.
C3_SurfacePositiveAndPrix ==
    /\ \A r \in LoadedRows :
          /\ {"Valeur fonciere", "Surface reelle bati", "prix_m2"} \subseteq DOMAIN r
          /\ r["Surface reelle bati"].n > 0
          /\ r.prix_m2.d > 0
          /\ r.prix_m2.n * r["Surface reelle bati"].n * r["Valeur fonciere"].d
               = r["Valeur fonciere"].n * r["Surface reelle bati"].d * r.prix_m2.d
    /\ \A r \in DividedRows :
          "Surface reelle bati" \in DOMAIN r /\ r["Surface reelle bati"].n > 0

\* C3 witness: a file with a sale of 3000 for 1.5 square metres and a sale
\* with a surface of 0 returns the first alone, with prix_m2 = 2000.
C3_Witness ==
    /\ pc = "done"
    /\ dvfFile = SetToBag({RawDvfRow("15/01/2020", "3000,00", "92", "1,5"),
                           RawDvfRow("15/01/2020", "3000,00", "92", "0")})
    /\ BagCardinality(dvfLoaded.df.rows) = 1
    /\ \E r \in LoadedRows : r.prix_m2 = Frac(2000, 1)

-----------------------------------------------------------------------------
(* Properties of the transformation runs, checked under Spec *)

SilverDatasets == {"dvf", "dpe"}

\* Number of rows a dataset holds, over all its files.
DatasetRowCount(files) ==
    SumOver(files, [f \in files |-> BagCardinality(f.rows)])

DatasetColumns(files) == UNION {f.columns \cup DOMAIN f.part : f \in files}

\* The rows read from a dataset, an empty bag when it has no file.
DatasetRows(files) == BagSum(files, [f \in files |-> FileRows(f)])

\* The files a run writes for a table into an empty directory.
Rebuilt(table, partition_cols, guid) ==
    IF table.status = "ok"
    THEN write_to_dataset({}, table.df, partition_cols, guid)
    ELSE {}

\* C8: a run of transform_silver.py that directly follows another one, with
\* no ingestion in between, leaves each Silver dataset with the same row
\* count, the same column set and the same files.
C8_SecondRunChangesNothing ==
    [][(lastOp.op = "transform_silver" /\ lastOp'.op = "transform_silver"
        /\ runs' = runs + 1)
       => \A d \in SilverDatasets :
             /\ DatasetRowCount(silver'[d]) = DatasetRowCount(silver[d])
             /\ DatasetColumns(silver'[d]) = DatasetColumns(silver[d])
             /\ Cardinality(silver'[d]) = Cardinality(silver[d])]_vars

\* C9: after a run of transform_silver.py each Silver dataset holds exactly
\* the rows which that run derives from the Bronze content, and after a run
\* of transform_gold.py that wrote, the partitioned Gold dataset holds
\* exactly the rows derived from the Silver content: nothing of an earlier
\* run is left.
C9_RunRebuildsOutput ==
    /\ lastOp.op = "transform_silver" =>
          /\ DatasetRows(silver.dvf)
                = DatasetRows(Rebuilt(transform_dvf(bronze), DvfPartitionCols, 0))
          /\ DatasetRows(silver.dpe)
                = DatasetRows(Rebuilt(transform_dpe(bronze), DpePartitionCols, 0))
    /\ (lastOp.op = "transform_gold" /\ lastOp.gold # 0) =>
          DatasetRows(goldBucket.parts)
             = DatasetRows(write_to_dataset({},
                    build_gold_frame(load_silver_parquet(silver.dvf),
                                     load_silver_parquet(silver.dpe)),
                    GoldPartitionCols, 0))

\* The Bronze keys of the configured scope.
DvfScopeKeys ==
    {k \in DOMAIN bronze : k.prefix \in {DvfPrefix("2020"), DvfPrefix("2021")}}

DpeScopeKeys ==
    {k \in DOMAIN bronze : \E dept \in DEPARTEMENTS : k.prefix = DpePrefix(dept)}

\* The qualifying rows of all the objects of the scope, as tables.
EveryDvfRow ==
    LET rows == BagSum(DvfScopeKeys,
                    [k \in DvfScopeKeys |-> clean_dvf(bronze[k]).df.rows])
    IN  [status |-> IF rows = EmptyBag THEN "empty" ELSE "ok",
         df |-> [columns |-> DvfLoadedCols \cup {"code_departement"},
                 rows |-> BagMap(rows, [r \in DOMAIN rows |->
                                          WithCodeDepartement(r)])]]

EveryDpeRow ==
    [status |-> IF DpeScopeKeys = {} THEN "empty" ELSE "ok",
     df |-> [columns |-> DpeSilverCols,
             rows |-> BagSum(DpeScopeKeys,
                         [k \in DpeScopeKeys |-> clean_dpe(bronze[k])])]]

\* C10: the files a run of transform_silver.py has written hold the
\* qualifying rows of every object under dvf/2020/, dvf/2021/ and
\* dpe/<dept>/, however many objects a prefix holds.
C10_EveryObjectContributes ==
    lastOp.op = "transform_silver" =>
       /\ {f \in silver.dvf : f.guid = lastOp.dvf}
             = Rebuilt(EveryDvfRow, DvfPartitionCols, lastOp.dvf)
       /\ {f \in silver.dpe : f.guid = lastOp.dpe}
             = Rebuilt(EveryDpeRow, DpePartitionCols, lastOp.dpe)

\* The Bronze keys a run of transform_silver.py reads.
ReadDvfKeys ==
    UNION {{load[1] : load \in {list_objects_v2(bronze, DvfPrefix(year))} \ {<<>>}}
            : year \in {"2020", "2021"}}

ReadDpeKeys ==
    UNION {{list_objects_v2(bronze, DpePrefix(dept))[i]
              : i \in DOMAIN list_objects_v2(bronze, DpePrefix(dept))}
            : dept \in DEPARTEMENTS}

\* The tables of a run whose input is every record of the objects read,
\* each record taken once however many objects hold it.
DistinctDvfRows ==
    LET records == UNION {DOMAIN bronze[k] : k \in ReadDvfKeys}
        rows == clean_dvf(SetToBag(records)).df.rows
    IN  [status |-> IF rows = EmptyBag THEN "empty" ELSE "ok",
         df |-> [columns |-> DvfLoadedCols \cup {"code_departement"},
                 rows |-> BagMap(rows, [r \in DOMAIN rows |->
                                          WithCodeDepartement(r)])]]

DistinctDpeRows ==
    LET records == UNION {DOMAIN bronze[k] : k \in ReadDpeKeys}
    IN  [status |-> IF ReadDpeKeys = {} THEN "empty" ELSE "ok",
         df |-> [columns |-> DpeSilverCols,
                 rows |-> clean_dpe(SetToBag(records))]]

\* C11: the files a run of transform_silver.py has written hold each record
\* of the objects it read exactly once, also when the same record is in
\* more than one Bronze object.
C11_RunWritesEachRecordOnce ==
    lastOp.op = "transform_silver" =>
       /\ {f \in silver.dvf : f.guid = lastOp.dvf}
             = Rebuilt(DistinctDvfRows, DvfPartitionCols, lastOp.dvf)
       /\ {f \in silver.dpe : f.guid = lastOp.dpe}
             = Rebuilt(DistinctDpeRows, DpePartitionCols, lastOp.dpe)

-----------------------------------------------------------------------------
(* Properties of the ingestion scripts, checked under SpecIngest and       *)
(* SpecReingest                                                            *)

\* A step of the script in progress that has stored one more page or file.
StoredOne ==
    /\ ing.script # "none"
    /\ ing'.run = ing.run
    /\ Len(ing'.saved) = Len(ing.saved) + 1

\* C12: no step of an ingestion run or of a re-run removes or changes an
\* object of the Bronze bucket, and every page or file stored goes to a key
\* that did not exist before.
C12_BronzeObjectsImmutable ==
    [][/\ \A k \in DOMAIN bronze :
             k \in DOMAIN bronze' /\ bronze'[k] = bronze[k]
       /\ StoredOne => ing'.saved[Len(ing'.saved)].key \notin DOMAIN bronze]_vars

DepartementSet == {departements[i] : i \in DOMAIN departements}

\* What the script stored for entry e of its log.
StoredContent(e) ==
    IF "page" \in DOMAIN e THEN ApiResults(e.page[1], e.page[2])
    ELSE DvfSourceRows(e.file)

\* C13: after a failed save of a page of a department no further page of
\* that department is requested, the pages the run has stored stay in the
\* bucket, and when ingest_all returns ingest_dept has been run for every
\* department.
C13_FailedSaveEndsDepartmentOnly ==
    ing.script = "dpe" =>
       /\ ing.pc \in {"fetch", "save"} => CurrentDept \notin ing.failed
       /\ \A i \in DOMAIN ing.saved :
             /\ ing.saved[i].key \in DOMAIN bronze
             /\ bronze[ing.saved[i].key] = StoredContent(ing.saved[i])
       /\ ing.pc = "done" => ing.visited = DepartementSet

\* A run that stored page 1 of department 92, failed to store page 2, and
\* went on to store the page of department 59.
C13_Witness ==
    /\ ing.script = "dpe" /\ ing.pc = "done"
    /\ ing.failed = {"92"}
    /\ Len(ing.saved) = 2
    /\ ing.saved[1].page = <<"92", 1>>
    /\ ing.saved[2].page = <<"59", 1>>

\* C14: a page request answered with a status of the forcelist is sent
\* again while fewer than RetryTotal retries were made; after RetryTotal
\* retries the page is abandoned without an exception: nothing is stored, a
\* warning is logged for the department, its ingestion ends and ingest_all
\* goes on with the next department or returns after the last one.
C14_RetriesBoundedThenAbandoned ==
    [][(ing.script = "dpe" /\ ing.pc = "fetch" /\ ing'.run = ing.run
        /\ ing'.status \in status_forcelist)
       => IF ing.attempts < RetryTotal
          THEN /\ ing'.pc = "fetch"
               /\ ing'.deptIdx = ing.deptIdx /\ ing'.page = ing.page
               /\ ing'.attempts = ing.attempts + 1
          ELSE /\ bronze' = bronze
               /\ CurrentDept \in ing'.warned
               /\ IF ing.deptIdx < Len(departements)
                  THEN /\ ing'.pc = "fetch"
                       /\ ing'.deptIdx = ing.deptIdx + 1
                       /\ ing'.page = 1 /\ ing'.attempts = 0
                  ELSE ing'.pc = "done"]_vars

\* Department 92 was abandoned after the last retry and the first page of
\* department 59 is about to be requested.
C14_Witness ==
    /\ ing.script = "dpe" /\ ing.pc = "fetch"
    /\ ing.deptIdx = 2 /\ ing.attempts = 0
    /\ ing.status \in status_forcelist
    /\ ing.warned = {"92"}

\* C15: every page or file the run has stored is in exactly one object of
\* its own, under dpe/<dept>/ or dvf/<year>/, which holds exactly that page
\* or file; no page or file is stored twice in the run and no two of them
\* share an object.
C15_OneObjectPerPageOrFile ==
    ing.script # "none" =>
       /\ \A i \in DOMAIN ing.saved :
             LET e == ing.saved[i]
             IN  /\ e.key \in DOMAIN bronze
                 /\ bronze[e.key] = StoredContent(e)
                 /\ e.key.prefix =
                       IF ing.script = "dpe" THEN DpePrefix(e.page[1])
                       ELSE DvfPrefix(determine_year_from_filename(e.file))
       /\ \A i, j \in DOMAIN ing.saved :
             i # j => /\ ing.saved[i].key # ing.saved[j].key
                      /\ IF ing.script = "dpe"
                         THEN ing.saved[i].page # ing.saved[j].page
                         ELSE ing.saved[i].file # ing.saved[j].file

\* A run that stored the two pages of department 92 in the same second and
\* then the page of department 59.
C15_Witness ==
    /\ ing.script = "dpe" /\ ing.pc = "done"
    /\ Len(ing.saved) = 3
    /\ ing.saved[1].key.ts = ing.saved[2].key.ts
    /\ ing.saved[1].key.prefix = ing.saved[2].key.prefix

-----------------------------------------------------------------------------
(* Properties of the Bronze -> Silver run on its scope, checked under Spec *)

\* C16: a run of transform_silver.py on a Bronze bucket without any object
\* under dvf/2020/ and dvf/2021/ logs the warning and makes no write to the
\* Silver DVF dataset, which stays without a file; the same for the Silver
\* DPE dataset when no dpe/<dept>/ prefix of the configured departments
\* holds an object.
C16_NoSourceNoSilverWrite ==
    lastOp.op = "transform_silver" =>
       /\ DvfScopeKeys = {} =>
             "dvf" \in lastOp.warned /\ lastOp.dvf = 0 /\ silver.dvf = {}
       /\ DpeScopeKeys = {} =>
             "dpe" \in lastOp.warned /\ lastOp.dpe = 0 /\ silver.dpe = {}

\* A run that found DPE batches and no DVF file: it wrote the Silver DPE
\* dataset only.
C16_Witness ==
    /\ lastOp.op = "transform_silver"
    /\ DvfScopeKeys = {} /\ DpeScopeKeys # {}
    /\ lastOp.dpe # 0 /\ silver.dpe # {}
    /\ silver.dvf = {}

C20_SilverRowsInDateRange ==
    /\ \A f \in silver.dvf :
          \A r \in DOMAIN f.rows : r.date_mutation.year \in {2020, 2021}
    /\ \A f \in silver.dpe :
          \A r \in DOMAIN f.rows :
             LET d == r.date_etablissement_dpe
             IN  d.year = 2020 \/ (d.year = 2021 /\ d.month <= 6)

-----------------------------------------------------------------------------
(* Properties of build_gold on incomplete Silver datasets, checked under    *)
(* SpecBuildGold                                                            *)

\* Both Silver datasets can be read and one of them lacks a required column:
\* DVF has no department column, no 'trimestre' or no 'prix_m2', or DPE has
\* no 'tv016_departement_code', no 'trimestre' or no
\* 'classe_consommation_energie'.
SilverLacksRequired ==
    LET dvf == load_silver_parquet(silver.dvf)
        dpe == load_silver_parquet(silver.dpe)
    IN  /\ dvf # FileNotFoundError /\ dpe # FileNotFoundError
        /\ \/ {"code_departement", "Code departement"} \cap dvf.columns = {}
           \/ {"trimestre", "prix_m2"} \ dvf.columns # {}
           \/ {"tv016_departement_code", "trimestre",
               "classe_consommation_energie"} \ dpe.columns # {}

\* C17: a run of transform_gold.py on Silver datasets that lack a required
\* column raises ValueError and leaves the Gold bucket as it was: neither
\* gold_complete.parquet nor a Gold partition is created or changed.
C17_MissingColumnsRaiseBeforeWrite ==
    [][(runs' = runs + 1 /\ lastOp'.op = "transform_gold"
        /\ SilverLacksRequired)
       => (lastOp'.status = "ValueError" /\ goldBucket' = goldBucket)]_vars

\* A run has raised on incomplete Silver datasets while the Gold bucket held
\* the output of an earlier run.
C17_Witness ==
    /\ lastOp.op = "transform_gold" /\ lastOp.status = "ValueError"
    /\ SilverLacksRequired
    /\ goldBucket.complete # NotRun /\ goldBucket.parts # {}

-----------------------------------------------------------------------------
(* Properties of a failed output write, checked under SpecWriteFail *)

\* C18: a transformation run whose output write fails leaves its
\* destination as it was before the run: the Silver datasets and the Gold
\* prefix hold nothing that the failed run wrote.
C18_FailedWriteLeavesNoArtifact ==
    [][(runs' = runs + 1 /\ "status" \in DOMAIN lastOp'
        /\ lastOp'.status = OSError.status)
       => (silver' = silver /\ goldBucket' = goldBucket)]_vars

-----------------------------------------------------------------------------
(* Properties of the business analyses, checked under SpecAnalytics *)

\* C21: no analysis raises; each stores a dictionary whose status is the
\* success flag with its result, or the error flag with a message; and
\* run_business_analytics returns an entry for each of the nine analyses,
\* whatever the earlier ones did.
C21_AnalysesNeverRaise ==
    /\ analytics.pc # "raised"
    /\ analytics.pc \in {"running", "returned"} =>
          \A i \in DOMAIN analytics.results :
             LET r == analytics.results[i]
             IN  \/ r.status = "succès" /\ "result" \in DOMAIN r
                 \/ r.status = "erreur" /\ "message" \in DOMAIN r
    /\ analytics.pc = "returned" =>
          Len(analytics.results) = Len(AnalysisNames)

\* run_business_analytics has returned; an analysis raised inside its try
\* block and a later one succeeded.
C21_Witness ==
    /\ analytics.pc = "returned"
    /\ \E i, j \in DOMAIN analytics.results :
          /\ i < j
          /\ analytics.results[i] = [status |-> "erreur", message |-> "KeyError"]
          /\ analytics.results[j].status = "succès"

-----------------------------------------------------------------------------
(* Properties of the boundary of the transformation scripts, checked under  *)
(* Spec                                                                     *)

\* C22: an exception raised inside a stage of a transformation script is
\* caught by the main of the script: no run of transform_silver.py or of
\* transform_gold.py ends with an unhandled exception.
C22_ExceptionsCaughtAtBoundary ==
    lastOp.op \in {"transform_silver", "transform_gold"} =>
       lastOp.exit # "unhandled exception"

-----------------------------------------------------------------------------
(* Properties of overlapping runs of transform_gold.py, checked under       *)
(* SpecConcurrentGold                                                       *)

-----------------------------------------------------------------------------
(* Properties of the rows load_dvf_year_to_df keeps, checked under          *)
(* SpecLoadDvf                                                              *)

\* The rows of the file that have a value, a surface greater than 0, a date
\* of the form dd/mm/YYYY and a configured department.
C24_RowsToKeep ==
    BagRestrict(dvfFile,
       {r \in DOMAIN dvfFile :
          /\ {"Valeur fonciere", "Surface reelle bati", "Date mutation",
              "Code departement"} \subseteq DOMAIN r
          /\ r["Surface reelle bati"] \in DOMAIN NumText
          /\ NumText[r["Surface reelle bati"]].n > 0
          /\ r["Date mutation"] \in DOMAIN DateText
          /\ r["Code departement"] \in DEPARTEMENTS})

\* C24: load_dvf_year_to_df never fails on a file with missing or malformed
\* values, and it returns as many rows as the file has rows with a value, a
\* surface greater than 0, a date that parses and a configured department.
C24_KeepsExactlyValidRows ==
    pc = "done" /\ dvfLoaded # NotRun =>
       /\ dvfLoaded.status = "ok"
       /\ BagCardinality(dvfLoaded.df.rows) = BagCardinality(C24_RowsToKeep)

-----------------------------------------------------------------------------
(* Properties of the two Gold outputs, checked under SpecGoldRuns *)

\* C25: after a run of transform_gold.py that wrote, the partitioned Gold
\* dataset reads back as the same set of rows as gold_complete.parquet, the
\* flat file of that run (both taken through the same partitioned write and
\* read).
C25_FlatAndPartitionedAgree ==
    (lastOp.op = "transform_gold" /\ lastOp.gold # 0) =>
       DOMAIN DatasetRows(goldBucket.parts)
          = DOMAIN DatasetRows(write_to_dataset({}, goldBucket.complete,
                                                GoldPartitionCols, 0))

\* C29: when two overlapping runs that computed different tables have both
\* finished, gold_complete.parquet and the partition files written last
\* come from the same run.
C29_FlatAndPartitionsOfOneRun ==
    (/\ \A p \in GoldRuns : writers[p].pc = "done" /\ writers[p].status = "ok"
     /\ writers[1].table # writers[2].table)
       => \E r \in GoldRuns :
             /\ goldBucket.complete = writers[r].table
             /\ \A f \in goldBucket.parts : f.guid <= writers[r].guid

-----------------------------------------------------------------------------
(* Properties of the loop of ingest_dept, checked under SpecIngest *)

\* The entries of the log of saved pages that belong to a department.
SavedOf(dept) == {j \in DOMAIN ing.saved : ing.saved[j].page[1] = dept}

\* C26: whichever way the loop of ingest_dept ended, the pair it returned
\* is exact: the record total is the sum of the lengths of the pages stored
\* for the department, and the batch count is the number of objects stored
\* for it.
C26_ReturnedPairIsExact ==
    (ing.script = "dpe") =>
       \A i \in DOMAIN ing.returned :
          LET e == ing.returned[i]
          IN  /\ e.total_records =
                    SumOver(SavedOf(e.dept),
                            [j \in SavedOf(e.dept) |->
                               BagCardinality(ApiResults(ing.saved[j].page[1],
                                                         ing.saved[j].page[2]))])
              /\ e.batches = Cardinality(SavedOf(e.dept))

\* C27: with a positive max_batches, ingest_dept requests at most
\* max_batches pages and stores at most max_batches objects for a
\* department, it requests a further page only while fewer than max_batches
\* were requested, and each page after the first is requested with the
\* continuation value returned by the page before it.
C27_AtMostMaxBatchesPages ==
    (ing.script = "dpe") =>
       /\ Len(ing.requests) <= ing.max_batches
       /\ ing.pc = "fetch" => Len(ing.requests) < ing.max_batches
       /\ \A dept \in ing.visited : Cardinality(SavedOf(dept)) <= ing.max_batches
       /\ \A i \in DOMAIN ing.requests :
             IF i = 1 THEN ing.requests[i] = 1
             ELSE ing.requests[i] = ApiNext(CurrentDept, ing.requests[i - 1])

\* The department 92 has ended after one page, with max_batches = 1, while
\* that page had returned a continuation token.
C27_Witness ==
    /\ ing.script = "dpe" /\ ing.max_batches = 1
    /\ \E i \in DOMAIN ing.returned :
          /\ ing.returned[i].dept = "92"
          /\ ing.returned[i].batches = 1
    /\ Cardinality(SavedOf("92")) = 1
    /\ ApiNext("92", 1) # NoToken

\* C30: once save_batch_to_minio has returned, with a key or with None, the
\* temporary file it wrote under /tmp is gone.
C30_TempFileRemoved == (ing.script = "dpe") => ing.tmp = {}

\* C28: the DVF ingest_all goes through every file it found, whatever
\* happened to the uploads before: a failed upload is counted and does not
\* raise, and at the end successful + failed is the number of files found,
\* successful being the number of objects stored.
C28_EveryFileAttempted ==
    (ing.script = "dvf") =>
       /\ ing.pc # "crashed"
       /\ ing.successful = Len(ing.saved)
       /\ ing.pc = "done" =>
             /\ ing.files = {}
             /\ ing.successful + ing.failed = Cardinality(DvfSourceFiles)

=============================================================================
